---- MODULE Spec2Model ----
(***************************************************************************)
(* A model of the tip5xx numerics core: the Goldilocks base field          *)
(* (BFieldElement, Montgomery form), the cubic extension field             *)
(* (XFieldElement) and the NTT engine.                                     *)
(*                                                                         *)
(* Machine words are kept at their width.  A uint64_t is a tuple of four   *)
(* 16-bit limbs, least significant first; an __uint128_t is a tuple of     *)
(* eight limbs; a uint32_t is a tuple of two.  All word arithmetic wraps   *)
(* exactly as the C++ unsigned types do.                                   *)
(***************************************************************************)
EXTENDS Integers, Sequences, FiniteSets, TLC

(***************************************************************************)
(* Word arithmetic on little-endian tuples of 16-bit limbs.                *)
(***************************************************************************)

\* The word of n limbs whose value is the small number v (v < 2^16).
Small(v, n) == [i \in 1..n |-> IF i = 1 THEN v ELSE 0]

\* The word of n limbs, all zero.
ZeroW(n) == [i \in 1..n |-> 0]

\* Unsigned a < b on words of equal length (most significant limb decides).
RECURSIVE LtFrom(_, _, _)
LtFrom(a, b, i) ==
    IF i = 0 THEN FALSE
    ELSE IF a[i] # b[i] THEN a[i] < b[i]
    ELSE LtFrom(a, b, i - 1)

Lt(a, b) == LtFrom(a, b, Len(a))

\* Wrapping addition of two words of equal length; c is the carry out.
RECURSIVE AddFrom(_, _, _, _, _)
AddFrom(a, b, i, carry, acc) ==
    IF i > Len(a) THEN [v |-> acc, c |-> carry]
    ELSE LET t == a[i] + b[i] + carry
         IN  AddFrom(a, b, i + 1, t \div 65536, Append(acc, t % 65536))

AddC(a, b) == AddFrom(a, b, 1, 0, <<>>)

WAdd(a, b) == AddC(a, b).v

\* Wrapping subtraction of two words of equal length; c is the borrow out.
RECURSIVE SubFrom(_, _, _, _, _)
SubFrom(a, b, i, borrow, acc) ==
    IF i > Len(a) THEN [v |-> acc, c |-> borrow]
    ELSE LET t == a[i] - b[i] - borrow
         IN  SubFrom(a, b, i + 1, IF t < 0 THEN 1 ELSE 0,
                     Append(acc, IF t < 0 THEN t + 65536 ELSE t))

SubB(a, b) == SubFrom(a, b, 1, 0, <<>>)

WSub(a, b) == SubB(a, b).v

\* The partial-product column of limb k (from 1) of a * b: the sums, over the
\* limb pairs i + j = k + 1, of a[i] times the low byte and times the high byte
\* of b[j] (each below 2^26).
RECURSIVE ColSum(_, _, _, _, _, _, _)
ColSum(x, y, k, i, last, lo, hi) ==
    IF i > last THEN <<lo, hi>>
    ELSE ColSum(x, y, k, i + 1, last,
                lo + x[i] * (y[k + 1 - i] % 256),
                hi + x[i] * (y[k + 1 - i] \div 256))

\* Limb k of the product is the low 16 bits of the column total t; the rest
\* of the column is carried into limb k + 1.
RECURSIVE MulFrom(_, _, _, _, _)
MulOut(x, y, k, acc, hi, t) ==
    MulFrom(x, y, k + 1, (t \div 65536) + hi, Append(acc, t % 65536))

MulCol(x, y, k, carry, acc, s) ==
    MulOut(x, y, k, acc, s[2] \div 256, s[1] + 256 * (s[2] % 256) + carry)

MulFrom(x, y, k, carry, acc) ==
    IF k > Len(x) + Len(y) THEN acc
    ELSE MulCol(x, y, k, carry, acc,
                ColSum(x, y, k, IF k > Len(y) THEN k + 1 - Len(y) ELSE 1,
                       IF k > Len(x) THEN Len(x) ELSE k, 0, 0))

\* The full product of two words: a word of Len(a) + Len(b) limbs.
WMul(x, y) == MulFrom(x, y, 1, 0, <<>>)

\* Zero-extension (or truncation) of a word to n limbs: a C++ static_cast
\* between unsigned types.
Cast(a, n) == [i \in 1..n |-> IF i <= Len(a) THEN a[i] ELSE 0]

\* Low and high 64 bits of a 128-bit word.
Lo64(x) == SubSeq(x, 1, 4)
Hi64(x) == SubSeq(x, 5, 8)

\* a << 32 and a >> 32 on a 64-bit word.
Shl32(a) == <<0, 0, a[1], a[2]>>
Shr32(a) == <<a[3], a[4], 0, 0>>

(***************************************************************************)
(* BFieldElement: constants and Montgomery reduction.                      *)
(***************************************************************************)

\* P = 0xFFFFFFFF00000001
P == <<1, 0, 65535, 65535>>

\* MAX = P - 1
MAX == WSub(P, Small(1, 4))

\* R2 = 0xFFFFFFFE00000001 = 2^128 mod P
R2 == <<1, 0, 65534, 65535>>

\* 1 + ~P = 0x00000000FFFFFFFF
Correction == <<65535, 65535, 0, 0>>

\* montyred, last step, without the correction for the borrow c.
montyred_r_NoBorrowCorrection(xh, b) == WSub(xh, b)

\* montyred, last step: r = xh - b, c = xh < b, return r - (1 + ~P) * c.
montyred_r(xh, b) ==
    IF Lt(xh, b) THEN WSub(WSub(xh, b), Correction) ELSE WSub(xh, b)

\* montyred, middle step: e = (a < xl) || (a < shifted), b = a - (a >> 32),
\* b-- if e.
montyred_b(xl, shifted, a) ==
    IF Lt(a, xl) \/ Lt(a, shifted)
    THEN WSub(WSub(a, Shr32(a)), Small(1, 4))
    ELSE WSub(a, Shr32(a))

\* montyred, first step: shifted = xl << 32, a = xl + shifted.
montyred_a(xl, shifted) == montyred_b(xl, shifted, WAdd(xl, shifted))

montyred(x) == montyred_r(Hi64(x), montyred_a(Lo64(x), Shl32(Lo64(x))))

\* A BFieldElement is its Montgomery word value_.
new_element(v) == montyred(WMul(v, R2))

canonical_representation(m) == montyred(Cast(m, 8))

value(m) == canonical_representation(m)

\* BFieldElement::ZERO and BFieldElement::ONE.
ZERO == new_element(Small(0, 4))
ONE == new_element(Small(1, 4))

\* operator== compares canonical values.
BEq(x, y) == value(x) = value(y)

is_zero(x) == BEq(x, ZERO)

is_one(x) == BEq(x, ONE)

\* operator+ without the correction after a borrow.
BAdd_NoCorrection(x, y) == WSub(x, WSub(P, y))

\* operator+ : a + b = a - (p - b), adding p back on a borrow.
BAdd(x, y) ==
    LET d == SubB(x, WSub(P, y))
    IN  IF d.c = 1 THEN WAdd(d.v, P) ELSE d.v

\* operator- (binary) without the correction on a borrow.
BSub_NoCorrection(x, y) == WSub(x, y)

\* operator- (binary): x1 - (1 + ~P) * c1.
BSub(x, y) ==
    LET d == SubB(x, y)
    IN  IF d.c = 1 THEN WSub(d.v, Correction) ELSE d.v

\* operator*
BMul(x, y) == montyred(WMul(x, y))

\* operator- (unary)
BNeg(x) == BSub(ZERO, x)

square(x) == BMul(x, x)

\* Statement order: the values vs (a tuple of intermediate results, in the
\* order the code assigns them) are computed before k is.
Then(vs, k) == IF vs = vs THEN k ELSE k

\* The for loop of exp: res after iterations lo .. hi-1 of res = res * res.
\* (The range is split in halves only to keep the evaluation shallow; the
\* value entering a range is computed before the range is run, as in the
\* code.)
RECURSIVE exp_loop(_, _, _)
exp_loop(res, lo, hi) ==
    IF hi <= lo THEN res
    ELSE IF hi = lo + 1 THEN BMul(res, res)
    ELSE Then(res, exp_loop(exp_loop(res, lo, (lo + hi) \div 2),
                            (lo + hi) \div 2, hi))

\* exp with one squaring too few.
exp_OneShort(base, n) == exp_loop(base, 1, n)

\* exp(base, exponent): res = base, then res = res * res exponent times.
exp(base, n) == exp_loop(base, 0, n)

\* A returned value, or the exception that left the call.
Ok(v) == [err |-> "none", val |-> v]
Throw(kind) == [err |-> kind, val |-> <<>>]

\* The addition chain of inverse_impl for a non-zero element x, one operator
\* per assignment of the code, each named after the value it has just received
\* and passing on the values still in use.
inverse_ret(bin_31_ones_1_zero, bin_32_ones) ==
    Then(<<bin_31_ones_1_zero, bin_32_ones>>,
         BMul(exp(bin_31_ones_1_zero, 32), bin_32_ones))

inverse_31(x, bin_31_ones) ==
    Then(bin_31_ones,
         inverse_ret(BMul(bin_31_ones, bin_31_ones),
                     BMul(BMul(bin_31_ones, bin_31_ones), x)))

inverse_30(x, bin_30_ones) ==
    Then(bin_30_ones,
         inverse_31(x, BMul(BMul(bin_30_ones, bin_30_ones), x)))

inverse_24(x, bin_6_ones, bin_24_ones) ==
    Then(bin_24_ones,
         inverse_30(x, BMul(exp(bin_24_ones, 6), bin_6_ones)))

inverse_12(x, bin_6_ones, bin_12_ones) ==
    Then(bin_12_ones,
         inverse_24(x, bin_6_ones,
                    BMul(exp(bin_12_ones, 12), bin_12_ones)))

inverse_6(x, bin_6_ones) ==
    Then(bin_6_ones,
         inverse_12(x, bin_6_ones, BMul(exp(bin_6_ones, 6), bin_6_ones)))

inverse_3(x, bin_3_ones) ==
    Then(bin_3_ones, inverse_6(x, BMul(exp(bin_3_ones, 3), bin_3_ones)))

inverse_2(x, bin_2_ones) ==
    Then(bin_2_ones, inverse_3(x, BMul(BMul(bin_2_ones, bin_2_ones), x)))

inverse_chain(x) == inverse_2(x, BMul(BMul(x, x), x))

inverse_impl(x) ==
    IF is_zero(x) THEN Throw("BFieldElementInverseError") ELSE Ok(inverse_chain(x))

\* operator/ : *this * rhs.inverse_impl()
BDivBy(x, inv) == IF inv.err # "none" THEN inv ELSE Ok(BMul(x, inv.val))

BDiv(x, y) == BDivBy(x, inverse_impl(y))

\* w >> 1 on a word.
Shr1(w) ==
    [i \in 1..Len(w) |->
        (w[i] \div 2) + (IF i < Len(w) THEN (w[i + 1] % 2) * 32768 ELSE 0)]

\* Bit k (from 0) of a word.
Bit(w, k) == (w[(k \div 16) + 1] \div (2 ^ (k % 16))) % 2

\* The number of times a word is shifted right before it is zero.
RECURSIVE bit_length(_)
bit_length(w) == IF w = ZeroW(Len(w)) THEN 0 ELSE 1 + bit_length(Shr1(w))

\* mod_pow(exp) with a 64-bit exponent: left-to-right square and multiply.
\* The for loop of mod_pow: acc after iterations lo .. hi-1 (split in halves
\* as in exp_loop).
RECURSIVE mod_pow_loop(_, _, _, _, _, _)
mod_pow_loop(x, e, bit_len, acc, lo, hi) ==
    IF hi <= lo THEN acc
    ELSE IF hi = lo + 1
    THEN IF Bit(e, bit_len - 1 - lo) = 1
         THEN BMul(BMul(acc, acc), x)
         ELSE BMul(acc, acc)
    ELSE Then(acc, mod_pow_loop(x, e, bit_len,
                       mod_pow_loop(x, e, bit_len, acc, lo, (lo + hi) \div 2),
                       (lo + hi) \div 2, hi))

\* mod_pow with the loop starting after the top bit of the exponent.
mod_pow_SkipsTopBit(x, e) ==
    mod_pow_loop(x, e, bit_length(e), ONE, 1, bit_length(e))

mod_pow(x, e) == mod_pow_loop(x, e, bit_length(e), ONE, 0, bit_length(e))

mod_pow_u64(x, e) == mod_pow(x, e)

\* mod_pow_u32(exp): the exponent zero-extended to 64 bits.
mod_pow_u32(x, e) == mod_pow(x, Cast(e, 4))

(***************************************************************************)
(* XFieldElement: the triple <<c0, c1, c2>> of the BFieldElement            *)
(* coefficients of c0 + c1*x + c2*x^2, modulo x^3 - x + 1.                  *)
(***************************************************************************)

new_const(element) == <<element, ZERO, ZERO>>

\* XFieldElement::ZERO and XFieldElement::ONE.
XZERO == <<ZERO, ZERO, ZERO>>
XONE == <<ONE, ZERO, ZERO>>

\* operator== compares the coefficient arrays.
XEq(l, r) == BEq(l[1], r[1]) /\ BEq(l[2], r[2]) /\ BEq(l[3], r[3])

Xis_zero(t) == XEq(t, XZERO)

\* operator+ and operator- on two XFieldElements.
XAdd(l, r) == <<BAdd(l[1], r[1]), BAdd(l[2], r[2]), BAdd(l[3], r[3])>>

XSub(l, r) == <<BSub(l[1], r[1]), BSub(l[2], r[2]), BSub(l[3], r[3])>>

\* operator* with the term a*d of r2 (the reduced x^4) left out.
XMulCoef_NoX4(a, b, c, d, e, f) ==
    <<BSub(BSub(BMul(c, f), BMul(a, e)), BMul(b, d)),
      BAdd(BAdd(BSub(BAdd(BMul(b, f), BMul(c, e)), BMul(a, d)), BMul(a, e)),
           BMul(b, d)),
      BAdd(BAdd(BMul(a, f), BMul(b, e)), BMul(c, d))>>

\* operator* on the coefficients a, b, c = c2, c1, c0 of the left operand and
\* d, e, f = c2, c1, c0 of the right one: <<r0, r1, r2>>.
XMulCoef(a, b, c, d, e, f) ==
    <<BSub(BSub(BMul(c, f), BMul(a, e)), BMul(b, d)),
      BAdd(BAdd(BSub(BAdd(BMul(b, f), BMul(c, e)), BMul(a, d)), BMul(a, e)),
           BMul(b, d)),
      BAdd(BAdd(BAdd(BMul(a, f), BMul(b, e)), BMul(c, d)), BMul(a, d))>>

XMul(l, r) == XMulCoef(l[3], l[2], l[1], r[3], r[2], r[1])

\* operator*(const BFieldElement&) with coefficients[0] in place of
\* coefficients[1].
XMulB_Coefficient0Twice(l, rhs) ==
    <<BMul(l[1], rhs), BMul(l[1], rhs), BMul(l[3], rhs)>>

\* operator*(const BFieldElement&) and operator*=(const BFieldElement&).
XMulB(l, rhs) == <<BMul(l[1], rhs), BMul(l[2], rhs), BMul(l[3], rhs)>>

\* inverse_impl, the return: the denominators times inv_denom.
Xinverse_ret(denom_0, denom_1, denom_2, inv_denom) ==
    IF inv_denom.err # "none" THEN inv_denom
    ELSE Ok(<<BMul(denom_0, inv_denom.val), BMul(denom_1, inv_denom.val),
              BMul(denom_2, inv_denom.val)>>)

\* inverse_impl: inv_denom = (denom_0^2 + denom_1^2 + denom_2^2).inverse().
Xinverse_denom(denom_0, denom_1, denom_2) ==
    Then(<<denom_0, denom_1, denom_2>>,
         Xinverse_ret(denom_0, denom_1, denom_2,
                      inverse_impl(BAdd(BAdd(square(denom_0), square(denom_1)),
                                        square(denom_2)))))

\* inverse_impl with a, b, c = c0, c1, c2: denom_0 = a^2 - b*c,
\* denom_1 = b^2 - a*c, denom_2 = c^2.
Xinverse_impl(t) ==
    IF Xis_zero(t) THEN Throw("XFieldElementInverseError")
    ELSE Xinverse_denom(BSub(square(t[1]), BMul(t[2], t[3])),
                        BSub(square(t[2]), BMul(t[1], t[3])),
                        square(t[3]))

\* operator/ : *this * rhs.inverse()
XDivBy(l, inv) == IF inv.err # "none" THEN inv ELSE Ok(XMul(l, inv.val))

XDiv(l, r) == XDivBy(l, Xinverse_impl(r))

(***************************************************************************)
(* More word arithmetic: bitwise and, shifts, division, conversion to a     *)
(* number.                                                                  *)
(***************************************************************************)

\* a & b on two limbs.
RECURSIVE BitAnd(_, _)
BitAnd(a, b) ==
    IF a = 0 \/ b = 0 THEN 0
    ELSE ((a % 2) * (b % 2)) + (2 * BitAnd(a \div 2, b \div 2))

\* a & b on two words of equal length.
WAnd(a, b) == [i \in 1..Len(a) |-> BitAnd(a[i], b[i])]

\* The number a word below 2^31 stands for (an index into a held vector).
W2I(w) == w[1] + (IF Len(w) > 1 THEN 65536 * w[2] ELSE 0)

\* (w << 1) | bit, on a word one limb longer than the divisor.
Shl1Or(w, bit) ==
    [i \in 1..Len(w) |->
        ((2 * w[i]) % 65536) + (IF i = 1 THEN bit ELSE w[i - 1] \div 32768)]

\* Unsigned division a / b of words of equal length, b # 0, one bit of a at a
\* time from the top: qr = <<quotient, remainder>>, the remainder kept one
\* limb longer.  DivBit is the step for bit i once the remainder is shifted.
DivBit(b, qr, i, shifted) ==
    IF Lt(shifted, Cast(b, Len(b) + 1))
    THEN <<qr[1], shifted>>
    ELSE <<[qr[1] EXCEPT ![(i \div 16) + 1] = @ + 2 ^ (i % 16)],
           WSub(shifted, Cast(b, Len(b) + 1))>>

\* Steps lo .. hi-1 of the division, step t on bit 16 * Len(a) - 1 - t (the
\* range is split in halves as in exp_loop).
RECURSIVE div_loop(_, _, _, _, _)
div_loop(a, b, qr, lo, hi) ==
    IF hi <= lo THEN qr
    ELSE IF hi = lo + 1
    THEN DivBit(b, qr, 16 * Len(a) - 1 - lo,
                Shl1Or(qr[2], Bit(a, 16 * Len(a) - 1 - lo)))
    ELSE Then(qr, div_loop(a, b, div_loop(a, b, qr, lo, (lo + hi) \div 2),
                           (lo + hi) \div 2, hi))

WDivMod(a, b) ==
    div_loop(a, b, <<ZeroW(Len(a)), ZeroW(Len(a) + 1)>>, 0, 16 * Len(a))

\* a / b and a % b.
WDiv(a, b) == WDivMod(a, b)[1]
WMod(a, b) == Cast(WDivMod(a, b)[2], Len(a))

(***************************************************************************)
(* Primitive roots of unity.                                               *)
(***************************************************************************)

\* PRIMITIVE_ROOTS: the pairs <<n, root>> of the lookup table, both as
\* 64-bit words (root is the canonical value).
PRIMITIVE_ROOTS ==
    <<<<<<0, 0, 0, 0>>, <<1, 0, 0, 0>>>>,
      <<<<1, 0, 0, 0>>, <<1, 0, 0, 0>>>>,
      <<<<2, 0, 0, 0>>, <<0, 0, 65535, 65535>>>>,
      <<<<4, 0, 0, 0>>, <<0, 0, 0, 1>>>>,
      <<<<8, 0, 0, 0>>, <<1, 65280, 65534, 65535>>>>,
      <<<<16, 0, 0, 0>>, <<1, 0, 65535, 61439>>>>,
      <<<<32, 0, 0, 0>>, <<49152, 65535, 16383, 0>>>>,
      <<<<64, 0, 0, 0>>, <<0, 0, 128, 0>>>>,
      <<<<128, 0, 0, 0>>, <<1, 2048, 2047, 63488>>>>,
      <<<<256, 0, 0, 0>>, <<43366, 58892, 5180, 49017>>>>,
      <<<<512, 0, 0, 0>>, <<8014, 23617, 53290, 6405>>>>,
      <<<<1024, 0, 0, 0>>, <<55666, 35838, 10967, 40335>>>>,
      <<<<2048, 0, 0, 0>>, <<51407, 7585, 46208, 1619>>>>,
      <<<<4096, 0, 0, 0>>, <<64694, 38301, 20889, 62147>>>>,
      <<<<8192, 0, 0, 0>>, <<31127, 13777, 61219, 5444>>>>,
      <<<<16384, 0, 0, 0>>, <<41442, 4283, 2451, 57582>>>>,
      <<<<32768, 0, 0, 0>>, <<47788, 8966, 53246, 63154>>>>,
      <<<<0, 1, 0, 0>>, <<17678, 49017, 38448, 21727>>>>,
      <<<<0, 2, 0, 0>>, <<35342, 43581, 42728, 43984>>>>,
      <<<<0, 4, 0, 0>>, <<48812, 1529, 6779, 33064>>>>,
      <<<<0, 8, 0, 0>>, <<13058, 36010, 7275, 64468>>>>,
      <<<<0, 16, 0, 0>>, <<59245, 24211, 11981, 12474>>>>,
      <<<<0, 32, 0, 0>>, <<9812, 12850, 44789, 62722>>>>,
      <<<<0, 64, 0, 0>>, <<18101, 58994, 6317, 19242>>>>,
      <<<<0, 128, 0, 0>>, <<51595, 14075, 23059, 60061>>>>,
      <<<<0, 256, 0, 0>>, <<57713, 49927, 52273, 34509>>>>,
      <<<<0, 512, 0, 0>>, <<61400, 28367, 62871, 19386>>>>,
      <<<<0, 1024, 0, 0>>, <<57990, 30934, 53339, 60737>>>>,
      <<<<0, 2048, 0, 0>>, <<5917, 37210, 36312, 4311>>>>,
      <<<<0, 4096, 0, 0>>, <<17541, 74, 38144, 22788>>>>,
      <<<<0, 8192, 0, 0>>, <<9830, 42093, 51515, 57256>>>>,
      <<<<0, 16384, 0, 0>>, <<2117, 47210, 53257, 32411>>>>,
      <<<<0, 32768, 0, 0>>, <<58969, 21896, 32629, 16394>>>>,
      <<<<0, 0, 1, 0>>, <<34700, 55896, 10716, 6230>>>>>>

\* A failed call: the exception kind and the caller's value when it was
\* thrown.
Fail(kind, v) == [err |-> kind, val |-> v]

\* primitive_root_of_unity(n) with 2^32, the last key of the table, not found.
primitive_root_of_unity_Without2To32(n) ==
    IF \E i \in 1..(Len(PRIMITIVE_ROOTS) - 1) : PRIMITIVE_ROOTS[i][1] = n
    THEN Ok(new_element(
             PRIMITIVE_ROOTS[CHOOSE i \in 1..Len(PRIMITIVE_ROOTS) :
                                 PRIMITIVE_ROOTS[i][1] = n][2]))
    ELSE Throw("BFieldElementPrimitiveRootError")

\* BFieldElement::primitive_root_of_unity(n), n a 64-bit word.
primitive_root_of_unity(n) ==
    IF \E i \in 1..Len(PRIMITIVE_ROOTS) : PRIMITIVE_ROOTS[i][1] = n
    THEN Ok(new_element(
             PRIMITIVE_ROOTS[CHOOSE i \in 1..Len(PRIMITIVE_ROOTS) :
                                 PRIMITIVE_ROOTS[i][1] = n][2]))
    ELSE Throw("BFieldElementPrimitiveRootError")

(***************************************************************************)
(* NTT.  A vector is [size, data]: size is x.size() as a 64-bit word and    *)
(* data the elements the model holds, from index 0 on: all of them for the  *)
(* short vectors, the first few for a vector of 2^32 elements or so.  ffv   *)
(* is the element type FF, "B" or "X"; twiddles are BFieldElements.         *)
(***************************************************************************)

\* The model holds every element of v.
Held(v) == v.size = Small(Len(v.data), 4)

\* FF's operator+, operator- and operator*=(const BFieldElement&).
FAdd(ffv, l, r) == IF ffv = "B" THEN BAdd(l, r) ELSE XAdd(l, r)
FSub(ffv, l, r) == IF ffv = "B" THEN BSub(l, r) ELSE XSub(l, r)
FMulB(ffv, l, w) == IF ffv = "B" THEN BMul(l, w) ELSE XMulB(l, w)

\* ensure_power_of_two(n) returns (TRUE) or throws std::invalid_argument.
ensure_power_of_two(n) ==
    ~(n = ZeroW(4) \/ WAnd(n, WSub(n, Small(1, 4))) # ZeroW(4))

\* static_cast<uint32_t>(std::log2(n)) for a power of two n.
Log2(n) == bit_length(n) - 1

\* bitreverse(n, l) and bitreverse_usize(n, l): the loop, r after its
\* iterations i .. l-1.  (r stays below 2^l, far from both types' widths.)
RECURSIVE bitreverse_loop(_, _, _, _)
bitreverse_loop(n, l, r, i) ==
    IF i >= l THEN r
    ELSE bitreverse_loop(n \div 2, l, (2 * r) + (n % 2), i + 1)

bitreverse(n, l) == bitreverse_loop(n, l, 0, 0)

bitreverse_usize(n, l) == bitreverse_loop(n, l, 0, 0)

\* The bit reversal permutation: for k .. n-1, swap x[rk] and x[k] if k < rk.
RECURSIVE swap_loop(_, _, _, _)
swap_loop(data, k, n, l) ==
    IF k >= n THEN data
    ELSE Then(data,
              swap_loop(IF k < bitreverse(k, l)
                        THEN [data EXCEPT ![bitreverse(k, l) + 1] = data[k + 1],
                                          ![k + 1] = data[bitreverse(k, l) + 1]]
                        ELSE data,
                        k + 1, n, l))

\* One butterfly on the elements at indices iu and iv (from 0) with twiddle
\* w: u = x[iu], v = x[iv], v *= w, x[iu] = u + v, x[iv] = u - v.
ButterflyUV(ffv, data, iu, iv, u, v) ==
    [data EXCEPT ![iu + 1] = FAdd(ffv, u, v), ![iv + 1] = FSub(ffv, u, v)]

Butterfly(ffv, data, iu, iv, w) ==
    ButterflyUV(ffv, data, iu, iv, data[iu + 1], FMulB(ffv, data[iv + 1], w))

\* for (j = 0; j < m; j++) { butterfly on k + j and k + j + m; w *= w_m; }
RECURSIVE butterfly_j(_, _, _, _, _, _, _)
butterfly_j(ffv, data, k, j, m, w, w_m) ==
    IF j >= m THEN data
    ELSE Then(<<data, w>>,
              butterfly_j(ffv, Butterfly(ffv, data, k + j, k + j + m, w),
                          k, j + 1, m, BMul(w, w_m), w_m))

\* while (k < slice_len) { w = ONE; the j loop; k += 2 * m; }
RECURSIVE butterfly_k(_, _, _, _, _, _)
butterfly_k(ffv, data, k, m, slice_len, w_m) ==
    IF k >= slice_len THEN data
    ELSE Then(data,
              butterfly_k(ffv, butterfly_j(ffv, data, k, 0, m, ONE, w_m),
                          k + (2 * m), m, slice_len, w_m))

\* One stage: w_m = omega.mod_pow_u32(quot) with quot = slice_len / (2 * m),
\* then the k loop.  slice_len and m are words of the index type.
ntt_stage(ffv, data, omega, slice_len, m, quot) ==
    butterfly_k(ffv, data, 0, W2I(m), W2I(slice_len),
                mod_pow_u32(omega, Cast(quot, 2)))

\* The stages s .. log2_slice_len-1, m doubling (and wrapping) in the index
\* type.  When 2 * m wraps to zero the division slice_len / (2 * m) is
\* undefined: the build traps, or goes on with a quotient of zero.
RECURSIVE ntt_stages(_, _, _, _, _, _, _, _)
ntt_stages(ffv, data, omega, slice_len, s, log2_slice_len, m, dz) ==
    IF s >= log2_slice_len THEN Ok(data)
    ELSE IF WAdd(m, m) = ZeroW(Len(m)) /\ dz = "trap"
    THEN Fail("DivideByZero", data)
    ELSE Then(data,
              ntt_stages(ffv,
                         ntt_stage(ffv, data, omega, slice_len, m,
                                   IF WAdd(m, m) = ZeroW(Len(m))
                                   THEN ZeroW(Len(m))
                                   ELSE WDiv(slice_len, WAdd(m, m))),
                         omega, slice_len, s + 1, log2_slice_len,
                         WAdd(m, m), dz))

\* The vector v with its held elements replaced by those of the outcome r.
WithData(v, r) == [err |-> r.err, val |-> [v EXCEPT !.data = r.val]]

\* ntt_unchecked: slice_len is x.size() cast to uint32_t; the bit reversal
\* permutation, then the butterflies, all on 32-bit indices.
ntt_unchecked(ffv, v, omega, log2_slice_len, dz) ==
    Then(omega,
         WithData(v, ntt_stages(ffv,
                                swap_loop(v.data, 0, W2I(Cast(v.size, 2)),
                                          log2_slice_len),
                                omega, Cast(v.size, 2), 0, log2_slice_len,
                                Small(1, 2), dz)))

\* ntt with the held elements reversed before the root is looked at.
ntt_root_ReordersFirst(ffv, v, omega, dz) ==
    IF omega.err # "none"
    THEN Fail(omega.err,
              [v EXCEPT !.data = [i \in 1..Len(v.data) |->
                                     v.data[(Len(v.data) + 1) - i]]])
    ELSE ntt_unchecked(ffv, v, omega.val, Log2(v.size), dz)

ntt_root(ffv, v, omega, dz) ==
    IF omega.err # "none" THEN Fail(omega.err, v)
    ELSE ntt_unchecked(ffv, v, omega.val, Log2(v.size), dz)

ntt(ffv, v, dz) ==
    IF v.size = ZeroW(4) THEN Ok(v)
    ELSE IF ~ensure_power_of_two(v.size) THEN Fail("invalid_argument", v)
    ELSE ntt_root(ffv, v, primitive_root_of_unity(v.size), dz)

\* for (auto& elem : x) elem *= n_inv;
scale_all(ffv, v, n_inv) ==
    Then(n_inv,
         [v EXCEPT !.data =
             [i \in 1..Len(v.data) |-> FMulB(ffv, v.data[i], n_inv)]])

intt_scale(ffv, r) ==
    IF r.err # "none" THEN r
    ELSE Ok(scale_all(ffv, r.val,
                      inverse_impl(new_element(r.val.size)).val))

intt_root(ffv, v, omega, dz) ==
    IF omega.err # "none" THEN Fail(omega.err, v)
    ELSE intt_scale(ffv, ntt_unchecked(ffv, v, inverse_impl(omega.val).val,
                                       Log2(v.size), dz))

intt(ffv, v, dz) ==
    IF v.size = ZeroW(4) THEN Ok(v)
    ELSE IF ~ensure_power_of_two(v.size) THEN Fail("invalid_argument", v)
    ELSE intt_root(ffv, v, primitive_root_of_unity(v.size), dz)

\* What the model still holds of a vector of which it held only the first
\* elements, after a transform whose result at those indices depends on the
\* others: the size, and no element.
Forget(v) == [v EXCEPT !.data = <<>>]

\* ntt_noswap: powers_of_omega_bitreversed after the iterations i .. half-1
\* of   powers[bitreverse_usize(i, logn - 1)] = omegai; omegai *= omega.
RECURSIVE powers_loop(_, _, _, _, _, _)
powers_loop(powers, omegai, omega, i, half, logn) ==
    IF i >= half THEN powers
    ELSE Then(<<powers, omegai>>,
              powers_loop([powers EXCEPT
                              ![bitreverse_usize(i, logn - 1) + 1] = omegai],
                          BMul(omegai, omega), omega, i + 1, half, logn))

\* for (j = s; j < s + t; j++): butterflies on j and j + t with one twiddle.
RECURSIVE noswap_j(_, _, _, _, _, _)
noswap_j(ffv, data, j, jend, t, w) ==
    IF j >= jend THEN data
    ELSE Then(data, noswap_j(ffv, Butterfly(ffv, data, j, j + t, w),
                             j + 1, jend, t, w))

\* for (i = 0; i < m; i++) { s = i * t * 2; the j loop with powers[i]; }
RECURSIVE noswap_i(_, _, _, _, _, _)
noswap_i(ffv, data, i, m, t, powers) ==
    IF i >= m THEN data
    ELSE Then(data,
              noswap_i(ffv,
                       noswap_j(ffv, data, i * t * 2, (i * t * 2) + t, t,
                                powers[i + 1]),
                       i + 1, m, t, powers))

\* while (m < n) { t >>= 1; the i loop; m *= 2; }
RECURSIVE noswap_m(_, _, _, _, _, _)
noswap_m(ffv, data, m, t, n, powers) ==
    IF m >= n THEN data
    ELSE Then(data,
              noswap_m(ffv, noswap_i(ffv, data, 0, m, t \div 2, powers),
                       2 * m, t \div 2, n, powers))

ntt_noswap_root(ffv, v, omega, n) ==
    IF omega.err # "none" THEN Fail(omega.err, v)
    ELSE IF ~Held(v) THEN Ok(Forget(v))
    ELSE Ok([v EXCEPT !.data =
                noswap_m(ffv, v.data, 1, n, n,
                         powers_loop([i \in 1..n |-> ZERO], ONE, omega.val,
                                     0, n \div 2, Log2(v.size)))])

ntt_noswap(ffv, v) ==
    IF v.size = ZeroW(4) THEN Ok(v)
    ELSE IF ~ensure_power_of_two(v.size) THEN Fail("invalid_argument", v)
    ELSE ntt_noswap_root(ffv, v, primitive_root_of_unity(v.size),
                         Len(v.data))

\* intt_noswap: the stages of ntt_unchecked without the permutation, with
\* omega.inverse() and on size_t indices; the exponent is cast to uint32_t.
intt_noswap_stages(ffv, v, omega_inverse) ==
    Then(omega_inverse,
         WithData(v, ntt_stages(ffv, v.data, omega_inverse, v.size, 0,
                                Log2(v.size), Small(1, 4), "trap")))

intt_noswap_root(ffv, v, omega) ==
    IF omega.err # "none" THEN Fail(omega.err, v)
    ELSE IF ~Held(v) THEN Ok(Forget(v))
    ELSE intt_noswap_stages(ffv, v, inverse_impl(omega.val).val)

intt_noswap(ffv, v) ==
    IF v.size = ZeroW(4) THEN Ok(v)
    ELSE IF ~ensure_power_of_two(v.size) THEN Fail("invalid_argument", v)
    ELSE intt_noswap_root(ffv, v, primitive_root_of_unity(v.size))

\* unscale(array): every element times the inverse of the length.
unscale(v) ==
    IF v.size = ZeroW(4) THEN Ok(v)
    ELSE Ok(scale_all("B", v, inverse_impl(new_element(v.size)).val))

\* bitreverse_order: logn is the least l with 2^l >= n.
RECURSIVE order_logn(_, _)
order_logn(n, logn) == IF 2 ^ logn < n THEN order_logn(n, logn + 1) ELSE logn

bitreverse_order(v) ==
    IF v.size = ZeroW(4) THEN Ok(v)
    ELSE IF ~Held(v) THEN Ok(Forget(v))
    ELSE Ok([v EXCEPT !.data =
                swap_loop(v.data, 0, Len(v.data),
                          order_logn(Len(v.data), 0))])

(***************************************************************************)
(* Conversions from integers.  An integer is [ty, w]: its type and its     *)
(* bits, two's complement for the signed types, as a word of the type's    *)
(* width (one limb below 256 for the 8-bit types).                         *)
(***************************************************************************)

IntTypes == {"u8", "u16", "u32", "u64", "i8", "i16", "i32", "i64", "u128"}

\* std::is_signed_v<T> and the width of T in bits.
is_signed(ty) == ty \in {"i8", "i16", "i32", "i64"}

BitsOf(ty) ==
    IF ty \in {"u8", "i8"} THEN 8
    ELSE IF ty \in {"u16", "i16"} THEN 16
    ELSE IF ty \in {"u32", "i32"} THEN 32
    ELSE IF ty \in {"u64", "i64"} THEN 64
    ELSE 128

\* value < 0.
Negative(c) == is_signed(c.ty) /\ Bit(c.w, BitsOf(c.ty) - 1) = 1

\* static_cast of a negative value to a signed or unsigned type of n limbs:
\* the sign is extended.
SignExtend(c, n) ==
    [i \in 1..n |->
        IF i > Len(c.w) THEN 65535
        ELSE IF BitsOf(c.ty) = 8 THEN c.w[i] + 65280
        ELSE c.w[i]]

\* mod_reduce(x): x_lo - x_hi_hi + x_hi_lo * (2^32 - 1) on 64-bit words, with
\* the two corrections by LOWER_MASK.
LOWER_MASK == <<65535, 65535, 0, 0>>

\* mod_reduce without the correction of an overflow.
mod_reduce_ret_NoCorrection(result, tmp1, tmp2) == result

mod_reduce_ret(result, tmp1, tmp2) ==
    IF Lt(result, tmp1) \/ Lt(result, tmp2) THEN WAdd(result, LOWER_MASK)
    ELSE result

mod_reduce_tmp(tmp1, tmp2) == mod_reduce_ret(WAdd(tmp1, tmp2), tmp1, tmp2)

\* mod_reduce without the correction of an underflow.
mod_reduce_parts_NoUnderflowCorrection(x_lo, x_hi_lo, x_hi_hi) ==
    mod_reduce_tmp(WSub(x_lo, x_hi_hi), WSub(Shl32(x_hi_lo), x_hi_lo))

mod_reduce_parts(x_lo, x_hi_lo, x_hi_hi) ==
    mod_reduce_tmp(IF Lt(x_lo, x_hi_hi)
                   THEN WSub(WSub(x_lo, x_hi_hi), LOWER_MASK)
                   ELSE WSub(x_lo, x_hi_hi),
                   WSub(Shl32(x_hi_lo), x_hi_lo))

mod_reduce(x) ==
    mod_reduce_parts(Lo64(x), <<x[5], x[6], 0, 0>>, <<x[7], x[8], 0, 0>>)

\* bfe_from<T>(value), the template for the integer types.
bfe_from_T(c) ==
    IF Negative(c) THEN new_element(WAdd(P, SignExtend(c, 4)))
    ELSE new_element(Cast(c.w, 4))

\* bfe_from(__uint128_t value).
bfe_from_u128(x) == new_element(mod_reduce(x))

\* bfe_from(int64_t value).
bfe_from_i64(c) ==
    IF ~Negative(c) THEN bfe_from_u128(Cast(c.w, 8))
    ELSE bfe_from_u128(WSub(SignExtend(c, 8), Cast(R2, 8)))

\* bfe_from(value): the overload chosen for the type of value.
bfe_from(c) ==
    IF c.ty = "i64" THEN bfe_from_i64(c)
    ELSE IF c.ty = "u128" THEN bfe_from_u128(c.w)
    ELSE bfe_from_T(c)

(***************************************************************************)
(* Raw encodings of a BFieldElement.                                       *)
(***************************************************************************)

\* is_canonical with x <= P.
is_canonical_AcceptsP(x) == ~Lt(P, x)

is_canonical(x) == Lt(x, P)

\* try_new(v): new_element(v) for a canonical v.
try_new(v) ==
    IF ~is_canonical(v) THEN Throw("NotCanonical") ELSE Ok(new_element(v))

\* The loop of raw_bytes on val: result[i] = val & 0xFF; val >>= 8.
bytes_of(val) ==
    [i \in 1..8 |->
        (val[((i - 1) \div 2) + 1] \div (IF i % 2 = 1 THEN 1 ELSE 256)) % 256]

raw_bytes(x) == bytes_of(value(x))

\* from_raw_bytes: result = (result << 8) | bytes[i] from the last byte down.
from_raw_bytes(bytes) ==
    try_new([i \in 1..4 |-> (256 * bytes[2 * i]) + bytes[(2 * i) - 1]])

\* raw_u16s: result[i] = val & 0xFFFF; val >>= 16.
raw_u16s(x) == [i \in 1..4 |-> value(x)[i] % 65536]

\* from_raw_u16s: result = (result << 16) | chunks[i] from the last down.
from_raw_u16s(chunks) == try_new([i \in 1..4 |-> chunks[i]])

(***************************************************************************)
(* Conversions to integers: a.to<T>().  The result is an integer of type   *)
(* T, [ty |-> T, w |-> its bits]; sov is what a signed overflow does in    *)
(* the build: "wrap" (two's complement) or "trap" (the program aborts).    *)
(***************************************************************************)

\* The 64-bit word whose low n bits are set.
LowOnes(n) ==
    [i \in 1..4 |->
        IF 16 * i <= n THEN 65535
        ELSE IF 16 * (i - 1) >= n THEN 0
        ELSE (2 ^ (n - (16 * (i - 1)))) - 1]

\* std::numeric_limits<T>::max() as uint64_t and, for a signed T,
\* std::numeric_limits<T>::min() as int64_t.
numeric_limits_max(ty) ==
    LowOnes(IF is_signed(ty) THEN BitsOf(ty) - 1 ELSE BitsOf(ty))

numeric_limits_min(ty) ==
    [i \in 1..4 |-> 65535 - LowOnes(BitsOf(ty) - 1)[i]]

\* a < b on int64_t.
SignedLt(a, b) ==
    Lt([a EXCEPT ![4] = (@ + 32768) % 65536],
       [b EXCEPT ![4] = (@ + 32768) % 65536])

\* a - b on int64_t leaves the range of int64_t.
sub_overflows(a, b) ==
    Bit(a, 63) # Bit(b, 63) /\ Bit(WSub(a, b), 63) # Bit(a, 63)

\* static_cast<T> of a 64-bit word.
static_cast(ty, w) ==
    [ty |-> ty,
     w |-> IF BitsOf(ty) = 8 THEN <<w[1] % 256>> ELSE Cast(w, BitsOf(ty) \div 16)]

\* to<T>, T unsigned.
to_unsigned(val, ty) ==
    IF Lt(numeric_limits_max(ty), val) THEN Throw("overflow_error")
    ELSE Ok(static_cast(ty, val))

\* to<T>, T signed, val > P / 2, from the test of signed_val on.
to_negative(signed_val, ty) ==
    IF SignedLt(signed_val, numeric_limits_min(ty))
    THEN Throw("underflow_error")
    ELSE Ok(static_cast(ty, signed_val))

\* to<T>, T signed.
to_signed(val, ty, sov) ==
    IF Lt(Shr1(P), val)
    THEN IF sub_overflows(val, P) /\ sov = "trap" THEN Throw("SignedOverflow")
         ELSE to_negative(WSub(val, P), ty)
    ELSE IF Lt(numeric_limits_max(ty), val) THEN Throw("overflow_error")
    ELSE Ok(static_cast(ty, val))

\* BFieldElement::to<T>().
to(x, ty, sov) ==
    IF is_signed(ty) THEN to_signed(canonical_representation(x), ty, sov)
    ELSE to_unsigned(canonical_representation(x), ty)

(***************************************************************************)
(* Text.  A string is the sequence of its characters' codes.  The parsers  *)
(* accumulate in 128-bit words; sov is what a signed overflow does in the  *)
(* build: "wrap" (two's complement), "trap", "assume" (it wraps, and tests *)
(* that cannot fail without an overflow are left out), or "assume_wide"    *)
(* (as "assume", with new_element inlined so that the conversion to        *)
(* uint64_t is left out as well).                                          *)
(***************************************************************************)

\* The outcomes of a signed overflow in bfe_from_string.
TextBuilds == {"wrap", "trap", "assume", "assume_wide"}

\* " \t\n\r"
Whitespace == {32, 9, 10, 13}

\* str.erase(0, str.find_first_not_of(" \t\n\r"))
RECURSIVE trim_left(_)
trim_left(str) ==
    IF str = <<>> THEN str
    ELSE IF Head(str) \in Whitespace THEN trim_left(Tail(str))
    ELSE str

\* str.erase(str.find_last_not_of(" \t\n\r") + 1)
RECURSIVE trim_right(_)
trim_right(str) ==
    IF str = <<>> THEN str
    ELSE IF str[Len(str)] \in Whitespace
    THEN trim_right(SubSeq(str, 1, Len(str) - 1))
    ELSE str

\* std::isdigit(c) and std::isxdigit(c).
isdigit(c) == c \in 48..57
isxdigit(c) == c \in 48..57 \/ c \in 97..102 \/ c \in 65..70

\* x < 0 and -x (wrapping) on a 128-bit signed word.
IsNeg128(x) == x[8] >= 32768
Neg128(x) == WSub(ZeroW(8), x)

\* 2^127 as an unsigned word: the magnitude of the least __int128_t.
Pow127 == <<0, 0, 0, 0, 0, 0, 0, 32768>>

\* parsed * 10 does not fit in __int128_t.
mul10_overflows(parsed) ==
    IF IsNeg128(parsed)
    THEN Lt(Cast(Pow127, 9), WMul(Neg128(parsed), <<10>>))
    ELSE ~Lt(WMul(parsed, <<10>>), Cast(Pow127, 9))

\* r + d, d a digit, does not fit in __int128_t.
add_overflows(r, d) ==
    ~IsNeg128(r) /\ ~Lt(WAdd(Cast(r, 9), Small(d, 9)), Cast(Pow127, 9))

\* The body of the loop of bfe_from_string once c is known to be a digit:
\* parsed = parsed * 10 + (c - '0'), then the test of bit 126.
parse_check(parsed) ==
    IF Bit(parsed, 126) = 1 THEN Throw("Overflow") ELSE Ok(parsed)

parse_add(r, d, sov) ==
    IF add_overflows(r, d) /\ sov = "trap" THEN Throw("SignedOverflow")
    ELSE parse_check(WAdd(r, Small(d, 8)))

parse_digit(parsed, d, sov) ==
    IF mul10_overflows(parsed) /\ sov = "trap" THEN Throw("SignedOverflow")
    ELSE parse_add(Cast(WMul(parsed, <<10>>), 8), d, sov)

\* The loop over the characters lo+1 .. hi of str, st the outcome so far
\* (the range is split in halves as in exp_loop).
RECURSIVE parse_loop(_, _, _, _, _)
parse_loop(str, st, lo, hi, sov) ==
    IF hi <= lo \/ st.err # "none" THEN st
    ELSE IF hi = lo + 1
    THEN IF ~isdigit(str[hi]) THEN Throw("InvalidDigit")
         ELSE parse_digit(st.val, str[hi] - 48, sov)
    ELSE Then(st, parse_loop(str, parse_loop(str, st, lo, (lo + hi) \div 2, sov),
                             (lo + hi) \div 2, hi, sov))

\* The normalisation of bfe_from_string: parsed <= -p and parsed >= p are
\* out of range, a negative parsed is raised by p.
normalize(parsed) ==
    IF IsNeg128(parsed) /\ ~Lt(Neg128(parsed), Cast(P, 8))
    THEN Throw("OutOfRange")
    ELSE IF IsNeg128(parsed)
    THEN Ok(new_element(Cast(WAdd(parsed, Cast(P, 8)), 4)))
    ELSE IF ~Lt(parsed, Cast(P, 8)) THEN Throw("OutOfRange")
    ELSE Ok(new_element(Cast(parsed, 4)))

\* The normalisation in a build that takes the absence of signed overflow
\* for granted (sov = "assume"): the accumulated value is taken to be >= 0, so
\* it is only tested against p (parsed <= -p is that test on the value before
\* its sign is changed), and it is raised by p whenever the string had a "-".
normalize_assume(accumulated, is_negative) ==
    IF ~IsNeg128(accumulated) /\ ~Lt(accumulated, Cast(P, 8))
    THEN Throw("OutOfRange")
    ELSE IF is_negative
    THEN Ok(new_element(Cast(WAdd(Neg128(accumulated), Cast(P, 8)), 4)))
    ELSE Ok(new_element(Cast(accumulated, 4)))

\* new_element inlined on a value the build takes to be below 2^64: the
\* product with R2 is formed on the 128-bit word as it is, without
\* static_cast<uint64_t>.
new_element_wide(normalized) ==
    montyred(Cast(WMul(normalized, R2), 8))

\* The same build with new_element inlined (sov = "assume_wide").
normalize_assume_wide(accumulated, is_negative) ==
    IF ~IsNeg128(accumulated) /\ ~Lt(accumulated, Cast(P, 8))
    THEN Throw("OutOfRange")
    ELSE IF is_negative
    THEN Ok(new_element_wide(WAdd(Neg128(accumulated), Cast(P, 8))))
    ELSE Ok(new_element_wide(accumulated))

\* if (is_negative) parsed = -parsed; then the normalisation.
parse_sign(st, is_negative, sov) ==
    IF st.err # "none" THEN st
    ELSE IF sov = "assume"
    THEN normalize_assume(st.val, is_negative)
    ELSE IF sov = "assume_wide"
    THEN normalize_assume_wide(st.val, is_negative)
    ELSE IF ~is_negative THEN normalize(st.val)
    ELSE IF st.val = Pow127 /\ sov = "trap" THEN Throw("SignedOverflow")
    ELSE normalize(Neg128(st.val))

parse_decimal(str, is_negative, sov) ==
    parse_sign(parse_loop(str, Ok(ZeroW(8)), 0, Len(str), sov),
               is_negative, sov)

\* The string begins with "0x" or "0X".
has_hex_prefix(str) ==
    Len(str) >= 2 /\ str[1] = 48 /\ (str[2] = 120 \/ str[2] = 88)

\* The value of a hex digit: c - '0', c - 'a' + 10 or c - 'A' + 10.
hex_value(c) ==
    IF c >= 48 /\ c <= 57 THEN c - 48
    ELSE IF c >= 97 /\ c <= 102 THEN (c - 97) + 10
    ELSE (c - 65) + 10

\* value <<= 4 on an unsigned 128-bit word.
Shl4(w) ==
    [i \in 1..Len(w) |->
        ((16 * w[i]) % 65536) + (IF i > 1 THEN w[i - 1] \div 4096 ELSE 0)]

\* The body of the loop of bfe_from_hex_string for a hex digit c:
\* value <<= 4; value |= digit; then the test value >= 2^127.
hex_check(v) == IF ~Lt(v, Pow127) THEN Throw("Overflow") ELSE Ok(v)

hex_digit(v, c) == hex_check(WAdd(Shl4(v), Small(hex_value(c), 8)))

RECURSIVE hex_loop(_, _, _, _)
hex_loop(hex, st, lo, hi) ==
    IF hi <= lo \/ st.err # "none" THEN st
    ELSE IF hi = lo + 1
    THEN IF ~isxdigit(hex[hi]) THEN Throw("InvalidHexChar")
         ELSE hex_digit(st.val, hex[hi])
    ELSE Then(st, hex_loop(hex, hex_loop(hex, st, lo, (lo + hi) \div 2),
                           (lo + hi) \div 2, hi))

hex_ret(st) == IF st.err # "none" THEN st ELSE Ok(bfe_from_u128(st.val))

hex_digits(hex) ==
    IF hex = <<>> THEN Throw("Empty")
    ELSE hex_ret(hex_loop(hex, Ok(ZeroW(8)), 0, Len(hex)))

bfe_from_hex_string(s) ==
    IF has_hex_prefix(s) THEN hex_digits(SubSeq(s, 3, Len(s)))
    ELSE hex_digits(s)

\* bfe_from_string after the trimming.
parse_trimmed(str, sov) ==
    IF str = <<>> THEN Throw("Empty")
    ELSE IF has_hex_prefix(str) THEN bfe_from_hex_string(str)
    ELSE IF str[1] = 45 THEN parse_decimal(Tail(str), TRUE, sov)
    ELSE IF str[1] = 43 THEN parse_decimal(Tail(str), FALSE, sov)
    ELSE parse_decimal(str, FALSE, sov)

bfe_from_string(s, sov) == parse_trimmed(trim_right(trim_left(s)), sov)

(***************************************************************************)
(* State.  The library is a set of pure operations and in-place transforms *)
(* on caller-owned values; a state holds the caller's operands, the        *)
(* operation last applied and what it returned.                            *)
(***************************************************************************)
VARIABLES
    op,      \* the operation last applied, "init" before any
    out,     \* what it returned: Ok(value) or Throw(kind)
    ba, bb, bc,   \* BFieldElement operands (Montgomery words)
    xa, xb, xc,   \* XFieldElement operands (coefficient triples)
    ff,      \* the element type of the vector: "B" or "X"
    vec,     \* the caller's vector, transformed in place
    vec0,    \* its contents before the first call
    prog,    \* the calls the caller makes, in order
    pc,      \* how many of them have been made
    divzero, \* what an integer division by zero does in this build
    cin      \* the integer handed to a conversion

bvars == <<ba, bb, bc>>
xvars == <<xa, xb, xc>>
nvars == <<ff, vec, vec0, prog, pc, divzero>>
vars == <<op, out, bvars, xvars, nvars, cin>>

\* No operand of the kind: the value of the variables a specification leaves
\* unused.
None == <<>>

(***************************************************************************)
(* Base field: operands and operations.                                    *)
(***************************************************************************)

\* Canonical values the operands are built from with new_element: 0, 1,
\* MAX, 2^32, 2^63, 2 and values that use all 64 bits.
BSeedValues ==
    <<<<0, 0, 0, 0>>,
      <<1, 0, 0, 0>>,
      <<0, 0, 65535, 65535>>,
      <<50356, 32904, 12127, 9874>>,
      <<0, 0, 1, 0>>,
      <<61301, 25000, 15955, 28942>>,
      <<0, 0, 0, 32768>>,
      <<2, 0, 0, 0>>>>

\* How many of the seed values are used.
NumBSeeds == 5

BSeeds ==
    {new_element(BSeedValues[i]) :
        i \in 1..(IF NumBSeeds < Len(BSeedValues) THEN NumBSeeds
                  ELSE Len(BSeedValues))}

\* P - 2, the exponent of the inverse.
PMinus2 == WSub(P, Small(2, 4))

InitB ==
    /\ op = "init"
    /\ out = Ok(None)
    /\ ba \in BSeeds
    /\ bb \in BSeeds
    /\ bc \in BSeeds
    /\ xa = None /\ xb = None /\ xc = None
    /\ ff = None /\ vec = None /\ vec0 = None /\ prog = None /\ pc = None
    /\ divzero = None /\ cin = None

B_Add ==
    /\ op = "init"
    /\ op' = "add"
    /\ out' = Ok(BAdd(ba, bb))
    /\ UNCHANGED <<bvars, xvars, nvars, cin>>

B_Sub ==
    /\ op = "init"
    /\ op' = "sub"
    /\ out' = Ok(BSub(ba, bb))
    /\ UNCHANGED <<bvars, xvars, nvars, cin>>

B_Mul ==
    /\ op = "init"
    /\ op' = "mul"
    /\ out' = Ok(BMul(ba, bb))
    /\ UNCHANGED <<bvars, xvars, nvars, cin>>

B_Neg ==
    /\ op = "init"
    /\ op' = "neg"
    /\ out' = Ok(BNeg(ba))
    /\ UNCHANGED <<bvars, xvars, nvars, cin>>

B_Div ==
    /\ op = "init"
    /\ op' = "div"
    /\ out' = BDiv(ba, bb)
    /\ UNCHANGED <<bvars, xvars, nvars, cin>>

B_Inverse ==
    /\ op = "init"
    /\ op' = "inverse"
    /\ out' = inverse_impl(ba)
    /\ UNCHANGED <<bvars, xvars, nvars, cin>>

NextB == B_Add \/ B_Sub \/ B_Mul \/ B_Neg \/ B_Div \/ B_Inverse

SpecB == InitB /\ [][NextB]_vars

(***************************************************************************)
(* Claims about the base field.                                            *)
(***************************************************************************)

\* C2: for all a, b, c in BFieldElement, with equality operator== on canonical
\* values: (a+b)+c = a+(b+c), a+b = b+a, a*(b+c) = a*b + a*c,
\* (a*b)*c = a*(b*c), a*b = b*a, a+ZERO = a, a*ONE = a, (-a)+a = ZERO,
\* a-a = ZERO and a + new_element(MAX) + ONE = a.
C2_FieldAxioms ==
    /\ op = "add" =>
        /\ BEq(BAdd(out.val, bc), BAdd(ba, BAdd(bb, bc)))
        /\ BEq(out.val, BAdd(bb, ba))
        /\ BEq(BAdd(ba, ZERO), ba)
        /\ BEq(BAdd(BAdd(ba, new_element(MAX)), ONE), ba)
    /\ op = "mul" =>
        /\ BEq(BMul(out.val, bc), BMul(ba, BMul(bb, bc)))
        /\ BEq(out.val, BMul(bb, ba))
        /\ BEq(BMul(ba, BAdd(bb, bc)), BAdd(out.val, BMul(ba, bc)))
        /\ BEq(BMul(ba, ONE), ba)
    /\ op = "neg" => BEq(BAdd(out.val, ba), ZERO)
    /\ op = "sub" /\ ba = bb => BEq(out.val, ZERO)

\* C2 witness: a product of two different operands, neither zero nor one, has
\* been formed, with a third operand different from both.
C2_Witness ==
    /\ op = "mul"
    /\ ba # bb /\ bb # bc /\ ba # bc
    /\ ~is_zero(ba) /\ ~is_one(ba) /\ ~is_zero(bb) /\ ~is_one(bb)
    /\ ~is_zero(bc)
    /\ out.val = BMul(ba, bb)

\* C3: for every non-zero a, inverse() returns the multiplicative inverse:
\* a * a.inverse() = ONE, a / a = ONE, and a.inverse() = a.mod_pow(p - 2).
C3_InverseIsInverse ==
    /\ op = "inverse" /\ ~is_zero(ba) =>
        /\ out.err = "none"
        /\ BEq(BMul(ba, out.val), ONE)
        /\ BEq(out.val, mod_pow(ba, PMinus2))
    /\ op = "div" /\ ba = bb /\ ~is_zero(ba) =>
        /\ out.err = "none"
        /\ BEq(out.val, ONE)

\* C3 witness: the inverse of an element other than zero and one was taken.
C3_Witness ==
    /\ op = "inverse"
    /\ ~is_zero(ba) /\ ~is_one(ba)
    /\ out.err = "none"
    /\ ~BEq(out.val, ba)

(***************************************************************************)
(* Extension field: operands and operations.                               *)
(***************************************************************************)

\* Canonical coefficients <<c0, c1, c2>> the operands are built from: 0, 1,
\* the constant 2, x^2, a full-width element, x and another full-width one.
XSeedValues ==
    <<<<<<0, 0, 0, 0>>, <<0, 0, 0, 0>>, <<0, 0, 0, 0>>>>,
      <<<<1, 0, 0, 0>>, <<0, 0, 0, 0>>, <<0, 0, 0, 0>>>>,
      <<<<2, 0, 0, 0>>, <<0, 0, 0, 0>>, <<0, 0, 0, 0>>>>,
      <<<<0, 0, 0, 0>>, <<0, 0, 0, 0>>, <<1, 0, 0, 0>>>>,
      <<<<0, 0, 65535, 65535>>, <<50356, 32904, 12127, 9874>>,
        <<0, 0, 1, 0>>>>,
      <<<<0, 0, 0, 0>>, <<1, 0, 0, 0>>, <<0, 0, 0, 0>>>>,
      <<<<61301, 25000, 15955, 28942>>, <<0, 0, 0, 32768>>,
        <<0, 0, 65535, 65535>>>>>>

\* How many of the seed values are used.
NumXSeeds == 5

XSeeds ==
    {<<new_element(XSeedValues[i][1]), new_element(XSeedValues[i][2]),
       new_element(XSeedValues[i][3])>> :
        i \in 1..(IF NumXSeeds < Len(XSeedValues) THEN NumXSeeds
                  ELSE Len(XSeedValues))}

InitX ==
    /\ op = "init"
    /\ out = Ok(None)
    /\ xa \in XSeeds
    /\ xb \in XSeeds
    /\ xc \in XSeeds
    /\ ba = None /\ bb = None /\ bc = None
    /\ ff = None /\ vec = None /\ vec0 = None /\ prog = None /\ pc = None
    /\ divzero = None /\ cin = None

X_Add ==
    /\ op = "init"
    /\ op' = "xadd"
    /\ out' = Ok(XAdd(xa, xb))
    /\ UNCHANGED <<bvars, xvars, nvars, cin>>

X_Mul ==
    /\ op = "init"
    /\ op' = "xmul"
    /\ out' = Ok(XMul(xa, xb))
    /\ UNCHANGED <<bvars, xvars, nvars, cin>>

X_Inverse ==
    /\ op = "init"
    /\ op' = "xinverse"
    /\ out' = Xinverse_impl(xa)
    /\ UNCHANGED <<bvars, xvars, nvars, cin>>

X_Div ==
    /\ op = "init"
    /\ op' = "xdiv"
    /\ out' = XDiv(xa, xb)
    /\ UNCHANGED <<bvars, xvars, nvars, cin>>

NextX == X_Add \/ X_Mul \/ X_Inverse \/ X_Div

SpecX == InitX /\ [][NextX]_vars

(***************************************************************************)
(* Claims about the extension field.                                       *)
(***************************************************************************)

\* C4: for every non-zero t in XFieldElement, inverse() returns a value and
\* t * t.inverse() = ONE.
C4_XInverseIsInverse ==
    op = "xinverse" /\ ~Xis_zero(xa) =>
        /\ out.err = "none"
        /\ XEq(XMul(xa, out.val), XONE)

\* C5: the product of a and b is their polynomial product p0 + p1*x + ... +
\* p4*x^4 reduced with x^3 = x - 1 and x^4 = x^2 - x, that is
\* <<p0 - p3, p1 + p3 - p4, p2 + p4>>; multiplication is commutative and
\* associative and distributes over addition.
C5_XMulIsPolynomialProduct ==
    op = "xmul" =>
        /\ LET p0 == BMul(xa[1], xb[1])
               p1 == BAdd(BMul(xa[1], xb[2]), BMul(xa[2], xb[1]))
               p2 == BAdd(BAdd(BMul(xa[1], xb[3]), BMul(xa[2], xb[2])),
                          BMul(xa[3], xb[1]))
               p3 == BAdd(BMul(xa[2], xb[3]), BMul(xa[3], xb[2]))
               p4 == BMul(xa[3], xb[3])
           IN  XEq(out.val,
                   <<BSub(p0, p3), BSub(BAdd(p1, p3), p4), BAdd(p2, p4)>>)
        /\ XEq(out.val, XMul(xb, xa))
        /\ XEq(XMul(out.val, xc), XMul(xa, XMul(xb, xc)))
        /\ XEq(XMul(xa, XAdd(xb, xc)), XAdd(out.val, XMul(xa, xc)))

\* C5 witness: x^2 * x^2 = x^2 - x = (0, MAX, 1) has been formed.
C5_Witness ==
    /\ op = "xmul"
    /\ xa = <<ZERO, ZERO, ONE>> /\ xb = xa
    /\ ~Xis_zero(xc) /\ xc # xa
    /\ out.val = <<ZERO, new_element(MAX), ONE>>

(***************************************************************************)
(* NTT: the caller's vector and the calls made on it.                      *)
(***************************************************************************)

\* Vectors of 0 .. 2^MaxLog elements are held whole.
MaxLog == 3

\* How many elements are held of a vector of 2^32 - 1 or 2^32 elements.
HeldLen == 2

\* How many element patterns the vectors are filled with.
NumPatterns == 2

SmallSizes == {Small(n, 4) : n \in 0..(2 ^ MaxLog)}

\* 2^32 - 1 and 2^32.
BigSizes == {<<65535, 65535, 0, 0>>, <<0, 0, 1, 0>>}

\* Element i of pattern k: a B element, and an X element that is the lift
\* new_const of it for odd k and has three coefficients for even k.
PatternB(i, k) == new_element(BSeedValues[((i * k + k) % Len(BSeedValues)) + 1])

PatternX(i, k) ==
    IF k % 2 = 1 THEN new_const(PatternB(i, k))
    ELSE <<PatternB(i, k), PatternB(i + 3, k), PatternB(i + 5, k)>>

InputVec(ffv, size, k) ==
    [size |-> size,
     data |-> [i \in 1..(IF size \in SmallSizes THEN W2I(size) ELSE HeldLen) |->
                  IF ffv = "B" THEN PatternB(i, k) ELSE PatternX(i, k)]]

\* The sequences of calls a caller makes on one vector.
Programs ==
    {<<"ntt", "intt">>,
     <<"intt">>,
     <<"ntt_noswap", "bitreverse_order">>,
     <<"intt_noswap">>,
     <<"bitreverse_order", "intt_noswap", "unscale">>,
     <<"ntt_unchecked">>,
     <<"ntt_unchecked", "intt">>}

\* unscale takes BFieldElements only; bitreverse_order indexes past the end
\* of a vector whose length is not a power of two, and is not called on one.
InitNtt ==
    /\ op = "init"
    /\ out = Ok(None)
    /\ ba = None /\ bb = None /\ bc = None
    /\ xa = None /\ xb = None /\ xc = None
    /\ cin = None
    /\ ff \in {"B", "X"}
    /\ divzero \in {"trap", "zero"}
    /\ prog \in Programs
    /\ pc = 0
    /\ vec0 \in {InputVec(ff, size, k) :
                    size \in SmallSizes \cup BigSizes, k \in 1..NumPatterns}
    /\ vec = vec0
    /\ prog[Len(prog)] = "unscale" => ff = "B"
    /\ prog[1] = "bitreverse_order" =>
           vec0.size = ZeroW(4) \/ ensure_power_of_two(vec0.size)

\* The next call of the program is name; the last one returned.
Calls(name) ==
    /\ pc < Len(prog)
    /\ prog[pc + 1] = name
    /\ out.err = "none"

\* The call name ends with outcome r, the vector as the call left it.
Returns(name, r) ==
    /\ op' = name
    /\ out' = [err |-> r.err, val |-> None]
    /\ vec' = r.val
    /\ pc' = pc + 1
    /\ UNCHANGED <<bvars, xvars, ff, vec0, prog, divzero, cin>>

N_ntt == Calls("ntt") /\ Returns("ntt", ntt(ff, vec, divzero))

\* The largest log2_slice_len ntt_unchecked is called with.
MaxUncheckedLog == 3

\* The omega ntt_unchecked is called with: the primitive roots of unity of
\* the orders 1 .. 2^MaxUncheckedLog, and the stored word 7, which is a root
\* of unity of none of them.
UncheckedOmegas ==
    {<<7, 0, 0, 0>>}
        \cup {primitive_root_of_unity(
                  [i \in 1..4 |-> IF i = 1 THEN 2 ^ k ELSE 0]).val :
                  k \in 0..MaxUncheckedLog}

\* Every index of ntt_unchecked(x, omega, l) lies within x: rk < 2^l and
\* k + j + m < k + 2^l stay below slice_len exactly if 2^l divides it.  On
\* other vectors the function indexes past the end, and is not called.
\* (l is below 16: the lowest 16 bits of the size decide.)
IndicesWithin(v, l) == v.size[1] % (2 ^ l) = 0

\* ntt_unchecked is public and takes any omega and log2_slice_len.  Of a
\* vector of 2^32 - 1 or 2^32 elements the first are held only: the call is
\* made on it where slice_len is 0 and no element is touched.
N_ntt_unchecked ==
    /\ Calls("ntt_unchecked")
    /\ Held(vec) \/ Cast(vec.size, 2) = ZeroW(2)
    /\ \E omega \in UncheckedOmegas : \E l \in 0..MaxUncheckedLog :
           /\ IndicesWithin(vec, l)
           /\ Returns("ntt_unchecked",
                      ntt_unchecked(ff, vec, omega, l, divzero))

N_intt == Calls("intt") /\ Returns("intt", intt(ff, vec, divzero))

N_ntt_noswap ==
    Calls("ntt_noswap") /\ Returns("ntt_noswap", ntt_noswap(ff, vec))

N_intt_noswap ==
    Calls("intt_noswap") /\ Returns("intt_noswap", intt_noswap(ff, vec))

N_unscale == Calls("unscale") /\ Returns("unscale", unscale(vec))

N_bitreverse_order ==
    Calls("bitreverse_order")
    /\ Returns("bitreverse_order", bitreverse_order(vec))

NextNtt ==
    \/ N_ntt
    \/ N_intt
    \/ N_ntt_noswap
    \/ N_intt_noswap
    \/ N_unscale
    \/ N_bitreverse_order
    \/ N_ntt_unchecked

SpecNtt == InitNtt /\ [][NextNtt]_vars

(***************************************************************************)
(* Claims about the NTT.                                                   *)
(***************************************************************************)

\* w is 2^k for some k in 0 .. 63.
IsPowerOfTwo(w) ==
    \E k \in 0..63 :
        w = [i \in 1..4 |-> IF i = (k \div 16) + 1 THEN 2 ^ (k % 16) ELSE 0]

\* Two vectors of one length agree at every index the model holds of both.
SameVec(ffv, v, w) ==
    /\ v.size = w.size
    /\ \A i \in 1..(IF Len(v.data) < Len(w.data) THEN Len(v.data)
                    ELSE Len(w.data)) :
           IF ffv = "B" THEN BEq(v.data[i], w.data[i])
           ELSE XEq(v.data[i], w.data[i])

\* The call with outcome r returned, and left the vector v.
ReturnedVec(ffv, r, v) == r.err = "none" /\ SameVec(ffv, r.val, v)

\* C1: for every vector of B or X of a power-of-two length n, 1 <= n <= 2^32,
\* ntt and then intt both return, and leave every element as it was.
C1_NttThenInttIsIdentity ==
    prog = <<"ntt", "intt">> /\ IsPowerOfTwo(vec0.size) =>
        /\ out.err = "none"
        /\ pc = 2 => SameVec(ff, vec, vec0)

\* C6: ntt, intt, ntt_noswap and intt_noswap, on B and on X, fail with the
\* invalid-length error for every length n >= 3 that is not a power of two,
\* and raise no error for the empty vector and for the lengths 1, 2, 4, ...
C6_InvalidLengthOnly ==
    pc = 1 /\ op \in {"ntt", "intt", "ntt_noswap", "intt_noswap"} =>
        IF vec0.size = ZeroW(4) \/ IsPowerOfTwo(vec0.size)
        THEN out.err = "none"
        ELSE out.err = "invalid_argument"

\* C7: for every vector of a power-of-two length, ntt_noswap and then
\* bitreverse_order leave what ntt leaves of the same input.
C7_NoswapThenReorderIsNtt ==
    prog = <<"ntt_noswap", "bitreverse_order">> /\ pc = 2
        /\ IsPowerOfTwo(vec0.size) =>
            ReturnedVec(ff, ntt(ff, vec0, divzero), vec)

\* C8: for every vector of B of a power-of-two length, bitreverse_order, then
\* intt_noswap, then unscale leave what intt leaves of the same input.
C8_ReorderNoswapUnscaleIsIntt ==
    prog = <<"bitreverse_order", "intt_noswap", "unscale">> /\ pc = 3
        /\ ff = "B" /\ IsPowerOfTwo(vec0.size) =>
            ReturnedVec(ff, intt(ff, vec0, divzero), vec)

\* The vector of X is the lift, element by element, of a vector of B.
IsLift(v) == \A i \in 1..Len(v.data) : v.data[i] = new_const(v.data[i][1])

Unlift(v) == [v EXCEPT !.data = [i \in 1..Len(v.data) |-> v.data[i][1]]]

\* The X-valued call ended as the B-valued one with outcome r did, and left
\* in v the lift of what that one left.
LiftOf(r, err, v) == err = r.err /\ v.data = [i \in 1..Len(r.val.data) |-> new_const(r.val.data[i])]

\* C9: for every vector x of B of a power-of-two length, ntt on the lift of x
\* leaves at every index new_const of the element ntt leaves of x there: the
\* higher coefficients stay zero.
C9_NttCommutesWithLift ==
    op = "ntt" /\ pc = 1 /\ ff = "X" /\ IsLift(vec0)
        /\ IsPowerOfTwo(vec0.size) =>
            LiftOf(ntt("B", Unlift(vec0), divzero), out.err, vec)

\* C9 witness: ntt has transformed the lift of four or more elements of B.
C9_Witness ==
    /\ op = "ntt" /\ pc = 1 /\ ff = "X" /\ IsLift(vec0)
    /\ Len(vec0.data) >= 4
    /\ out.err = "none"
    /\ vec # vec0
    /\ \E i \in 1..Len(vec.data) : vec.data[i][1] # ZERO

(***************************************************************************)
(* Conversions: the integer converted and the operations.                  *)
(***************************************************************************)

\* Bit patterns of 128 bits the integers are cut from: P - 1, P, P + 1,
\* 2^64 - 1 over 2^32 - 1, 5 * 2^96, 2^64 * (2^32 - 1) + 2^63 + 77, R2 and
\* 2^127 + 2^63 + 2^31 + 2^15 + 2^7 + 1.
ConvSeedValues ==
    <<<<0, 0, 65535, 65535, 0, 0, 0, 0>>,
      <<1, 0, 65535, 65535, 0, 0, 0, 0>>,
      <<2, 0, 65535, 65535, 0, 0, 0, 0>>,
      <<65535, 65535, 65535, 65535, 65535, 65535, 0, 0>>,
      <<0, 0, 0, 0, 0, 0, 5, 0>>,
      <<77, 0, 0, 32768, 65535, 65535, 0, 0>>,
      <<1, 0, 65534, 65535, 0, 0, 0, 0>>,
      <<32897, 32768, 0, 32768, 0, 0, 0, 32768>>>>

\* How many of the patterns are used.
NumConvSeeds == 6

\* The low bits of a pattern that make an integer of type ty.
Truncate(ty, w) ==
    IF BitsOf(ty) = 8 THEN <<w[1] % 256>> ELSE Cast(w, BitsOf(ty) \div 16)

\* 0, 1, the largest and the least value of a signed type and their
\* neighbours (all ones is -1), and the patterns.
ConvInputs(ty) ==
    {Truncate(ty, w) :
        w \in {Small(0, 8), Small(1, 8), [i \in 1..8 |-> 65535],
               [i \in 1..8 |-> IF i = BitsOf(ty) \div 16 THEN 32768
                               ELSE IF BitsOf(ty) = 8 /\ i = 1 THEN 128
                               ELSE 0],
               [i \in 1..8 |-> IF BitsOf(ty) = 8 THEN 127
                               ELSE IF i = BitsOf(ty) \div 16 THEN 32767
                               ELSE 65535],
               [i \in 1..8 |-> IF i = 1 THEN (IF BitsOf(ty) > 16 THEN 1
                                              ELSE IF BitsOf(ty) = 16
                                              THEN 32769 ELSE 129)
                               ELSE IF i = BitsOf(ty) \div 16 THEN 32768
                               ELSE 0]}
              \cup {ConvSeedValues[i] :
                       i \in 1..(IF NumConvSeeds < Len(ConvSeedValues)
                                 THEN NumConvSeeds
                                 ELSE Len(ConvSeedValues))}}

InitConv ==
    /\ op = "init"
    /\ out = Ok(None)
    /\ bb = None /\ bc = None
    /\ xa = None /\ xb = None /\ xc = None
    /\ ff = None /\ vec = None /\ vec0 = None /\ prog = None /\ pc = None
    /\ divzero = None
    /\ \E ty \in IntTypes : \E w \in ConvInputs(ty) : cin = [ty |-> ty, w |-> w]
    /\ ba = new_element(Cast(cin.w, 4))

\* BFieldElement::new_element(value) on a value of an unsigned type of up to
\* 64 bits, converted to uint64_t.
Conv_new_element ==
    /\ op = "init"
    /\ cin.ty \in {"u8", "u16", "u32", "u64"}
    /\ op' = "new_element"
    /\ out' = Ok(new_element(Cast(cin.w, 4)))
    /\ UNCHANGED <<bvars, xvars, nvars, cin>>

Conv_bfe_from ==
    /\ op = "init"
    /\ op' = "bfe_from"
    /\ out' = Ok(bfe_from(cin))
    /\ UNCHANGED <<bvars, xvars, nvars, cin>>

\* try_new, from_raw_bytes and from_raw_u16s on the 64 bits of the integer
\* (as a value, as its eight bytes and as its four 16-bit chunks), and
\* raw_bytes and raw_u16s on the element ba made from them.
Conv_try_new ==
    /\ op = "init"
    /\ cin.ty = "u64"
    /\ op' = "try_new"
    /\ out' = try_new(cin.w)
    /\ UNCHANGED <<bvars, xvars, nvars, cin>>

Conv_from_raw_bytes ==
    /\ op = "init"
    /\ cin.ty = "u64"
    /\ op' = "from_raw_bytes"
    /\ out' = from_raw_bytes([i \in 1..8 |->
                   IF i % 2 = 1 THEN cin.w[(i + 1) \div 2] % 256
                   ELSE cin.w[i \div 2] \div 256])
    /\ UNCHANGED <<bvars, xvars, nvars, cin>>

Conv_from_raw_u16s ==
    /\ op = "init"
    /\ cin.ty = "u64"
    /\ op' = "from_raw_u16s"
    /\ out' = from_raw_u16s(cin.w)
    /\ UNCHANGED <<bvars, xvars, nvars, cin>>

Conv_raw_bytes ==
    /\ op = "init"
    /\ cin.ty = "u64"
    /\ op' = "raw_bytes"
    /\ out' = Ok(raw_bytes(ba))
    /\ UNCHANGED <<bvars, xvars, nvars, cin>>

Conv_raw_u16s ==
    /\ op = "init"
    /\ cin.ty = "u64"
    /\ op' = "raw_u16s"
    /\ out' = Ok(raw_u16s(ba))
    /\ UNCHANGED <<bvars, xvars, nvars, cin>>

NextConv ==
    \/ Conv_new_element
    \/ Conv_bfe_from
    \/ Conv_try_new
    \/ Conv_from_raw_bytes
    \/ Conv_from_raw_u16s
    \/ Conv_raw_bytes
    \/ Conv_raw_u16s

SpecConv == InitConv /\ [][NextConv]_vars

(***************************************************************************)
(* Claims about the conversions.                                           *)
(***************************************************************************)

\* The integer is below zero: it is of a signed type and its top bit is set.
BelowZero(c) ==
    c.ty \in {"i8", "i16", "i32", "i64"}
    /\ (c.w[Len(c.w)] \div (IF BitsOf(c.ty) = 8 THEN 128 ELSE 32768)) % 2 = 1

\* -v for an integer v below zero: 2^bits minus its bits, as a 64-bit word.
Magnitude(c) ==
    Cast(WSub([i \in 1..8 |-> IF i = (BitsOf(c.ty) \div 16) + 1
                              THEN 2 ^ (BitsOf(c.ty) % 16) ELSE 0],
              Cast(c.w, 8)), 4)

\* The non-negative remainder of the integer modulo p, by division.
Remainder(c) ==
    IF BelowZero(c)
    THEN Cast(WMod(Cast(WSub(P, Cast(WMod(Cast(Magnitude(c), 8),
                                          Cast(P, 8)), 4)), 8),
                   Cast(P, 8)), 4)
    ELSE Cast(WMod(Cast(c.w, 8), Cast(P, 8)), 4)

\* C10: for every integer v of a supported type (unsigned of 8 to 64 bits by
\* new_element or bfe_from, signed of 8 to 64 bits and unsigned of 128 bits
\* by bfe_from) the element's canonical value() is the non-negative
\* remainder of v modulo p; new_element(v).value() is v for v < p and v - p
\* for p <= v < 2^64; bfe_from(-1) is MAX.
C10_ConversionIsRemainder ==
    op \in {"new_element", "bfe_from"} =>
        /\ out.err = "none"
        /\ value(out.val) = Remainder(cin)
        /\ Lt(value(out.val), P)
        /\ op = "new_element" =>
               value(out.val) = (IF Lt(Cast(cin.w, 4), P) THEN Cast(cin.w, 4)
                                 ELSE WSub(Cast(cin.w, 4), P))
        /\ BelowZero(cin) /\ Magnitude(cin) = Small(1, 4) =>
               value(out.val) = MAX

\* C10 witness: INT64_MIN has been converted, to p - 2^63.
C10_Witness ==
    /\ op = "bfe_from"
    /\ cin = [ty |-> "i64", w |-> <<0, 0, 0, 32768>>]
    /\ value(out.val) = <<1, 0, 65535, 32767>>

\* The integer whose little-endian bytes, or 16-bit limbs, are given.
LittleEndian(digits, base) ==
    [i \in 1..4 |->
        IF base = 65536 THEN digits[i]
        ELSE digits[(2 * i) - 1] + (256 * digits[2 * i])]

\* C11: for every BFieldElement a, from_raw_bytes(a.raw_bytes()) = a and
\* from_raw_u16s(a.raw_u16s()) = a, the encodings being the little-endian
\* bytes and 16-bit limbs of value(); from_raw_bytes, from_raw_u16s and
\* try_new fail with NotCanonical exactly when the decoded integer is >= p,
\* and return the element of that value otherwise.
C11_RawEncodingsRoundTrip ==
    /\ op = "raw_bytes" =>
        /\ LittleEndian(out.val, 256) = value(ba)
        /\ \A i \in 1..8 : out.val[i] \in 0..255
        /\ from_raw_bytes(out.val) = Ok(ba)
    /\ op = "raw_u16s" =>
        /\ LittleEndian(out.val, 65536) = value(ba)
        /\ from_raw_u16s(out.val) = Ok(ba)
    /\ op \in {"try_new", "from_raw_bytes", "from_raw_u16s"} =>
        /\ out.err = "NotCanonical" <=> ~Lt(cin.w, P)
        /\ out.err \in {"none", "NotCanonical"}
        /\ out.err = "none" => value(out.val) = cin.w

\* C11 witness: the bytes of P - 1 have been written, least significant
\* first.
C11_Witness ==
    /\ op = "raw_bytes"
    /\ value(ba) = MAX
    /\ out.val = <<0, 0, 0, 0, 255, 255, 255, 255>>

(***************************************************************************)
(* Text: the string parsed and the parsers.                                *)
(***************************************************************************)

\* The texts parsed, as character codes: 0; 256; p - 1; p; 0x1f; 2^128 + 5;
\* hex 2^128; 2^126; hex 2^127 - 1; 2^127; hex 2^127; 2^128 - 1; 0XFF; 2^64;
\* 12a; the empty string; p + 1; hex 2^124; 2^128 + p - 1; 2^126 - 1;
\* (2^64 - (2^29 + 1) * (2^33 + 1)) * 2^64, whose product with R2 has the
\* high word 2^64 - 2^29 - 1 and the low word 0 (mod 2^128); 0x; 10^45 + 7;
\* hex 4d * 2^124.
StrSeedValues ==
    <<
      <<48>>,
      <<50, 53, 54>>,
      <<49, 56, 52, 52, 54, 55, 52, 52, 48, 54, 57, 52, 49, 52, 53, 56, 52,
        51, 50, 48>>,
      <<49, 56, 52, 52, 54, 55, 52, 52, 48, 54, 57, 52, 49, 52, 53, 56, 52,
        51, 50, 49>>,
      <<48, 120, 49, 102>>,
      <<51, 52, 48, 50, 56, 50, 51, 54, 54, 57, 50, 48, 57, 51, 56, 52, 54,
        51, 52, 54, 51, 51, 55, 52, 54, 48, 55, 52, 51, 49, 55, 54,
        56, 50, 49, 49, 52, 54, 49>>,
      <<49, 48, 48, 48, 48, 48, 48, 48, 48, 48, 48, 48, 48, 48, 48, 48, 48,
        48, 48, 48, 48, 48, 48, 48, 48, 48, 48, 48, 48, 48, 48, 48,
        48>>,
      <<56, 53, 48, 55, 48, 53, 57, 49, 55, 51, 48, 50, 51, 52, 54, 49, 53,
        56, 54, 53, 56, 52, 51, 54, 53, 49, 56, 53, 55, 57, 52, 50,
        48, 53, 50, 56, 54, 52>>,
      <<55, 102, 102, 102, 102, 102, 102, 102, 102, 102, 102, 102, 102, 102,
        102, 102, 102, 102, 102, 102, 102, 102, 102, 102, 102, 102,
        102, 102, 102, 102, 102, 102>>,
      <<49, 55, 48, 49, 52, 49, 49, 56, 51, 52, 54, 48, 52, 54, 57, 50, 51,
        49, 55, 51, 49, 54, 56, 55, 51, 48, 51, 55, 49, 53, 56, 56,
        52, 49, 48, 53, 55, 50, 56>>,
      <<56, 48, 48, 48, 48, 48, 48, 48, 48, 48, 48, 48, 48, 48, 48, 48, 48,
        48, 48, 48, 48, 48, 48, 48, 48, 48, 48, 48, 48, 48, 48, 48>>,
      <<51, 52, 48, 50, 56, 50, 51, 54, 54, 57, 50, 48, 57, 51, 56, 52, 54,
        51, 52, 54, 51, 51, 55, 52, 54, 48, 55, 52, 51, 49, 55, 54,
        56, 50, 49, 49, 52, 53, 53>>,
      <<48, 88, 70, 70>>,
      <<49, 56, 52, 52, 54, 55, 52, 52, 48, 55, 51, 55, 48, 57, 53, 53, 49,
        54, 49, 54>>,
      <<49, 50, 97>>,
      <<>>,
      <<49, 56, 52, 52, 54, 55, 52, 52, 48, 54, 57, 52, 49, 52, 53, 56, 52,
        51, 50, 50>>,
      <<49, 48, 48, 48, 48, 48, 48, 48, 48, 48, 48, 48, 48, 48, 48, 48, 48,
        48, 48, 48, 48, 48, 48, 48, 48, 48, 48, 48, 48, 48, 48, 48>>,
      <<51, 52, 48, 50, 56, 50, 51, 54, 54, 57, 50, 48, 57, 51, 56, 52, 54,
        51, 52, 56, 49, 56, 50, 49, 51, 53, 49, 53, 48, 49, 49, 56,
        50, 55, 57, 53, 55, 55, 54>>,
      <<56, 53, 48, 55, 48, 53, 57, 49, 55, 51, 48, 50, 51, 52, 54, 49, 53,
        56, 54, 53, 56, 52, 51, 54, 53, 49, 56, 53, 55, 57, 52, 50,
        48, 53, 50, 56, 54, 51>>,
      <<50, 53, 53, 50, 49, 49, 55, 55, 53, 48, 50, 50, 51, 52, 52, 48, 48,
        50, 50, 51, 54, 50, 55, 50, 52, 57, 52, 49, 49, 51, 56, 51,
        53, 55, 49, 50, 53, 49, 50>>,
      <<48, 120>>,
      <<49, 48, 48, 48, 48, 48, 48, 48, 48, 48, 48, 48, 48, 48, 48, 48, 48,
        48, 48, 48, 48, 48, 48, 48, 48, 48, 48, 48, 48, 48, 48, 48,
        48, 48, 48, 48, 48, 48, 48, 48, 48, 48, 48, 48, 48, 55>>,
      <<52, 100, 48, 48, 48, 48, 48, 48, 48, 48, 48, 48, 48, 48, 48, 48, 48,
        48, 48, 48, 48, 48, 48, 48, 48, 48, 48, 48, 48, 48, 48, 48,
        48>>>>

\* How many of the texts are used.
NumStrSeeds == 21

\* A text as it is, or after "-", "+" or a blank.
StrInputs ==
    {prefix \o StrSeedValues[i] :
        prefix \in {<<>>, <<45>>, <<43>>, <<32>>},
        i \in 1..(IF NumStrSeeds < Len(StrSeedValues) THEN NumStrSeeds
                  ELSE Len(StrSeedValues))}

InitStr ==
    /\ op = "init"
    /\ out = Ok(None)
    /\ ba = None /\ bb = None /\ bc = None
    /\ xa = None /\ xb = None /\ xc = None
    /\ ff = None /\ vec = None /\ vec0 = None /\ prog = None /\ pc = None
    /\ divzero = None
    /\ cin \in [s : StrInputs, sov : TextBuilds]

Str_bfe_from_string ==
    /\ op = "init"
    /\ op' = "bfe_from_string"
    /\ out' = bfe_from_string(cin.s, cin.sov)
    /\ UNCHANGED <<bvars, xvars, nvars, cin>>

Str_bfe_from_hex_string ==
    /\ op = "init"
    /\ op' = "bfe_from_hex_string"
    /\ out' = bfe_from_hex_string(cin.s)
    /\ UNCHANGED <<bvars, xvars, nvars, cin>>

NextStr == Str_bfe_from_string \/ Str_bfe_from_hex_string

SpecStr == InitStr /\ [][NextStr]_vars

(***************************************************************************)
(* Claims about the parsers.                                               *)
(***************************************************************************)

\* The digit a character stands for in a base up to 16, or 16 if none.
DigitOf(c) ==
    IF c \in 48..57 THEN c - 48
    ELSE IF c \in 97..102 THEN c - 87
    ELSE IF c \in 65..70 THEN c - 55
    ELSE 16

\* The characters from position from on are digits of the base, one or more.
AllDigits(str, from, base) ==
    /\ from <= Len(str)
    /\ \A i \in from..Len(str) : DigitOf(str[i]) < base

\* The number written by the characters lo+1 .. hi in the base: acc is the
\* number written by those before them.  Words of 256 bits hold it.
RECURSIVE Written(_, _, _, _, _)
Written(str, base, acc, lo, hi) ==
    IF hi <= lo THEN acc
    ELSE IF hi = lo + 1
    THEN WAdd(Cast(WMul(acc, <<base>>), 16), Small(DigitOf(str[hi]), 16))
    ELSE Then(acc, Written(str, base,
                           Written(str, base, acc, lo, (lo + hi) \div 2),
                           (lo + hi) \div 2, hi))

\* The magnitude of a decimal text: its digits after an optional sign.
SignLen(str) == IF str # <<>> /\ str[1] \in {43, 45} THEN 1 ELSE 0

DecimalMagnitude(str) == Written(str, 10, ZeroW(16), SignLen(str), Len(str))

\* C12: bfe_from_string returns no element for a decimal text (an optional
\* sign, then digits, however many) whose magnitude is >= p: it fails with
\* OutOfRange or with Overflow.
C12_DecimalOutOfRangeRejected ==
    op = "bfe_from_string" /\ AllDigits(cin.s, SignLen(cin.s) + 1, 10)
        /\ ~Lt(DecimalMagnitude(cin.s), Cast(P, 16)) =>
            out.err \in {"OutOfRange", "Overflow"}

\* C13: bfe_from_hex_string fails with Overflow for every text of hex
\* digits, however many, that writes a number >= 2^127, and returns the
\* element of that number modulo p for every one that writes a number
\* below 2^127.
C13_HexOverflowAt127Bits ==
    op = "bfe_from_hex_string" /\ AllDigits(cin.s, 1, 16) =>
        IF ~Lt(Written(cin.s, 16, ZeroW(16), 0, Len(cin.s)), Cast(Pow127, 16))
        THEN out.err = "Overflow"
        ELSE /\ out.err = "none"
             /\ Cast(value(out.val), 16)
                    = WMod(Written(cin.s, 16, ZeroW(16), 0, Len(cin.s)),
                           Cast(P, 16))

(***************************************************************************)
(* Conversions to integers: the element converted and the target type.     *)
(***************************************************************************)

\* The target types: the integer types of 8 to 64 bits.
ToTypes == {ty \in IntTypes : BitsOf(ty) <= 64}

\* Canonical values at the ends of the ranges of the types: 2^k - 1 and 2^k
\* for k = 7, 8, 15, 16, 31, 32, 63, P / 2 and P / 2 + 1, and P - 2^k - 1 and
\* P - 2^k for k = 7, 15, 31, with 0 and P - 1.
ToValues ==
    {<<0, 0, 0, 0>>, <<127, 0, 0, 0>>, <<128, 0, 0, 0>>, <<255, 0, 0, 0>>,
     <<256, 0, 0, 0>>, <<32767, 0, 0, 0>>, <<32768, 0, 0, 0>>,
     <<65535, 0, 0, 0>>, <<0, 1, 0, 0>>, <<65535, 32767, 0, 0>>,
     <<0, 32768, 0, 0>>, <<65535, 65535, 0, 0>>, <<0, 0, 1, 0>>,
     <<0, 32768, 65535, 32767>>, <<1, 32768, 65535, 32767>>,
     <<65535, 65535, 65535, 32767>>, <<0, 0, 0, 32768>>,
     <<0, 32768, 65534, 65535>>, <<1, 32768, 65534, 65535>>,
     <<32768, 65535, 65534, 65535>>, <<32769, 65535, 65534, 65535>>,
     <<65408, 65535, 65534, 65535>>, <<65409, 65535, 65534, 65535>>,
     <<0, 0, 65535, 65535>>}

InitTo ==
    /\ op = "init"
    /\ out = Ok(None)
    /\ bb = None /\ bc = None
    /\ xa = None /\ xb = None /\ xc = None
    /\ ff = None /\ vec = None /\ vec0 = None /\ prog = None /\ pc = None
    /\ divzero = None
    /\ cin \in [ty : ToTypes, w : ToValues, sov : {"wrap", "trap"}]
    /\ ba = new_element(cin.w)

\* a.to<T>() for the element a and the type T.
To_to ==
    /\ op = "init"
    /\ op' = "to"
    /\ out' = to(ba, cin.ty, cin.sov)
    /\ UNCHANGED <<bvars, xvars, nvars, cin>>

NextTo == To_to

SpecTo == InitTo /\ [][NextTo]_vars

\* The range of the type has 2^(bits - 1) values from 0 up if the type is
\* signed, and as many below zero; 2^bits from 0 up if it is not.
Pow2(n) == [i \in 1..5 |-> IF i = (n \div 16) + 1 THEN 2 ^ (n % 16) ELSE 0]

\* s is below zero: the type is signed and value() > p / 2.
SIsNegative == is_signed(cin.ty) /\ Lt(Shr1(P), value(ba))

\* s lies in the range of the type.
SInRange ==
    IF SIsNegative
    THEN ~Lt(Pow2(BitsOf(cin.ty) - 1), Cast(WSub(P, value(ba)), 5))
    ELSE Lt(Cast(value(ba), 5),
            Pow2(IF is_signed(cin.ty) THEN BitsOf(cin.ty) - 1
                 ELSE BitsOf(cin.ty)))

\* The integer returned is s.
ReturnsS ==
    /\ out.err = "none"
    /\ out.val.ty = cin.ty
    /\ IF SIsNegative
       THEN BelowZero(out.val) /\ Magnitude(out.val) = WSub(P, value(ba))
       ELSE ~BelowZero(out.val) /\ Cast(out.val.w, 4) = value(ba)

\* C14: a.to<T>() for a narrow T (8, 16 or 32 bits, signed or not) returns
\* s when s lies in the range of T and otherwise fails with the one error
\* kind OutOfRange, where s is value() for an unsigned T and, for a signed
\* T, value() if value() <= p / 2 and value() - p otherwise; the conversion
\* to 64 bits, signed or not, never fails.
C14_NarrowConversionInRangeOrOutOfRange ==
    op = "to" =>
        IF BitsOf(cin.ty) = 64 THEN out.err = "none"
        ELSE IF SInRange THEN ReturnsS
        ELSE out.err = "OutOfRange"

(***************************************************************************)
(* Inverse and inverse_or_zero of both fields.                             *)
(***************************************************************************)

\* inverse_or_zero without the test for zero.
inverse_or_zero_NoZeroTest(x) == inverse_impl(x)

\* Inverse<BFieldElement>::inverse_or_zero(); zero() is ZERO.
inverse_or_zero(x) == IF is_zero(x) THEN Ok(ZERO) ELSE inverse_impl(x)

\* Inverse<XFieldElement>::inverse_or_zero(); zero() is XFieldElement::ZERO.
Xinverse_or_zero(x) == IF Xis_zero(x) THEN Ok(XZERO) ELSE Xinverse_impl(x)

InitInv ==
    /\ op = "init"
    /\ out = Ok(None)
    /\ ba \in BSeeds
    /\ bb \in BSeeds
    /\ bc = None
    /\ xa \in XSeeds
    /\ xb = None /\ xc = None
    /\ ff = None /\ vec = None /\ vec0 = None /\ prog = None /\ pc = None
    /\ divzero = None /\ cin = None

B_inverse_or_zero ==
    /\ op = "init"
    /\ op' = "inverse_or_zero"
    /\ out' = inverse_or_zero(ba)
    /\ UNCHANGED <<bvars, xvars, nvars, cin>>

X_inverse_or_zero ==
    /\ op = "init"
    /\ op' = "xinverse_or_zero"
    /\ out' = Xinverse_or_zero(xa)
    /\ UNCHANGED <<bvars, xvars, nvars, cin>>

NextInv ==
    B_Inverse \/ B_Div \/ X_Inverse \/ B_inverse_or_zero \/ X_inverse_or_zero

SpecInv == InitInv /\ [][NextInv]_vars

\* C15: BFieldElement::ZERO.inverse() and a / ZERO fail with the error of an
\* inverse of zero, and so does XFieldElement::ZERO.inverse();
\* inverse_or_zero() returns ZERO on ZERO and what inverse() returns on
\* every other element (for a BFieldElement, the element whose product with
\* the operand is ONE).
C15_InverseOfZeroFailsOrZero ==
    /\ op = "inverse" /\ value(ba) = ZeroW(4) =>
           out.err = "BFieldElementInverseError"
    /\ op = "div" /\ value(bb) = ZeroW(4) =>
           out.err = "BFieldElementInverseError"
    /\ op = "xinverse" /\ (\A i \in 1..3 : value(xa[i]) = ZeroW(4)) =>
           out.err = "XFieldElementInverseError"
    /\ op = "inverse_or_zero" =>
           /\ out.err = "none"
           /\ IF value(ba) = ZeroW(4) THEN value(out.val) = ZeroW(4)
              ELSE /\ out = inverse_impl(ba)
                   /\ BEq(BMul(out.val, ba), ONE)
    /\ op = "xinverse_or_zero" =>
           /\ out.err = "none"
           /\ IF \A i \in 1..3 : value(xa[i]) = ZeroW(4)
              THEN \A i \in 1..3 : value(out.val[i]) = ZeroW(4)
              ELSE out = Xinverse_impl(xa)

\* C15 witness: inverse_or_zero() of ZERO has returned ZERO.
C15_Witness ==
    /\ op = "inverse_or_zero"
    /\ value(ba) = ZeroW(4)
    /\ out.err = "none"
    /\ value(out.val) = ZeroW(4)

(***************************************************************************)
(* batch_inversion.  A vector is [data, rest]: the elements data, followed *)
(* for each k by rest[k].n copies of rest[k].e (n a 64-bit word, not 0),   *)
(* so that vectors of more than INT_MAX elements can be written down.      *)
(* ndebug says whether the build removes assert; sov is what the signed    *)
(* overflow of INT_MIN - 1 does in the build: "wrap", "trap", or "assume"  *)
(* (the index is kept in 64 bits and lies outside the vector).             *)
(***************************************************************************)

\* The outcomes of a signed overflow in batch_inversion.
BatchBuilds == {"wrap", "trap", "assume"}

\* The index of the first element of the run k of rest (of the element
\* after the last, for k = Len(rest) + 1).
RECURSIVE RunStart(_, _)
RunStart(v, k) ==
    IF k <= 1 THEN Small(Len(v.data), 4)
    ELSE WAdd(RunStart(v, k - 1), v.rest[k - 1].n)

\* input.size()
BatchSize(v) == RunStart(v, Len(v.rest) + 1)

\* v[i], i a 64-bit word below the size.
BatchAt(v, i) ==
    IF Lt(i, Small(Len(v.data), 4)) THEN v.data[W2I(i) + 1]
    ELSE v.rest[CHOOSE k \in 1..Len(v.rest) :
                    ~Lt(i, RunStart(v, k)) /\ Lt(i, RunStart(v, k + 1))].e

\* The first loop from index i on: acc is the product of the inputs before
\* i and scratch[j], j < i, the product of those before j.
RECURSIVE batch_forward(_, _, _, _, _)
batch_forward(input, scratch, acc, i, ndebug) ==
    IF i > Len(input) THEN [err |-> "none", scratch |-> scratch, acc |-> acc]
    ELSE IF ~ndebug /\ is_zero(input[i])
    THEN [err |-> "assert", scratch |-> scratch, acc |-> acc]
    ELSE Then(acc, batch_forward(input, [scratch EXCEPT ![i] = acc],
                                 BMul(acc, input[i]), i + 1, ndebug))

\* The second loop without acc = tmp.
RECURSIVE batch_backward_KeepAcc(_, _, _, _)
batch_backward_KeepAcc(input, scratch, acc, i) ==
    IF i < 1 THEN input
    ELSE Then(acc, batch_backward_KeepAcc(
                       [input EXCEPT ![i] = BMul(acc, scratch[i])],
                       scratch, acc, i - 1))

\* The second loop from index i down (the code counts from i - 1 down to 0).
RECURSIVE batch_backward(_, _, _, _)
batch_backward(input, scratch, acc, i) ==
    IF i < 1 THEN input
    ELSE Then(acc, batch_backward([input EXCEPT ![i] = BMul(acc, scratch[i])],
                                  scratch, BMul(acc, input[i]), i - 1))

\* The turns of the first loop on the runs k .. of rest: each turn stores
\* acc and multiplies it by the element, so the run leaves acc * e^n; starts
\* keeps scratch at the first index of each run.
RECURSIVE batch_forward_rest(_, _, _, _)
batch_forward_rest(rest, fw, k, ndebug) ==
    IF fw.err # "none" \/ k > Len(rest) THEN fw
    ELSE IF ~ndebug /\ is_zero(rest[k].e) THEN [fw EXCEPT !.err = "assert"]
    ELSE Then(fw, batch_forward_rest(
                      rest,
                      [fw EXCEPT !.starts = Append(@, fw.acc),
                                 !.acc = BMul(fw.acc,
                                              mod_pow(rest[k].e, rest[k].n))],
                      k + 1, ndebug))

\* The low 32 bits of input_length.
Low32(size) == <<size[1], size[2]>>

\* int i = static_cast<int>(input_length) - 1: the index the second loop
\* starts at, or why it has none.  The low 32 bits are taken as a signed
\* number; INT_MIN - 1 overflows.
batch_start(size, sov) ==
    IF Low32(size) = <<0, 32768>>
    THEN IF sov = "wrap" THEN [kind |-> "index", i |-> <<65535, 32767, 0, 0>>]
         ELSE IF sov = "trap" THEN [kind |-> "trap"]
         ELSE [kind |-> "outside"]
    ELSE IF Low32(size)[2] >= 32768 \/ Low32(size) = <<0, 0>>
    THEN [kind |-> "negative"]
    ELSE [kind |-> "index", i |-> Cast(WSub(Low32(size), Small(1, 2)), 4)]

\* How many elements of the run k the second loop rewrites when it starts
\* at the index i: those from the first of the run up to i.
RunTurns(input, k, i) ==
    IF Lt(i, RunStart(input, k)) THEN ZeroW(4)
    ELSE IF Lt(i, RunStart(input, k + 1))
    THEN WAdd(WSub(i, RunStart(input, k)), Small(1, 4))
    ELSE input.rest[k].n

\* m turns of the second loop on a run whose first scratch is start: the
\* turn at the j-th index from the top of the m writes
\* (acc * e^j) * (start * e^(m - 1 - j)) and leaves acc * e^(j + 1).  The
\* elements above the m are left.
batch_backward_run(run, start, st, m) ==
    IF m = ZeroW(4) THEN [st EXCEPT !.rest = <<run>> \o @]
    ELSE [acc |-> BMul(st.acc, mod_pow(run.e, m)),
          rest |->
              <<[n |-> m,
                 e |-> BMul(st.acc,
                            BMul(start,
                                 mod_pow(run.e, WSub(m, Small(1, 4)))))]>>
                  \o (IF m = run.n THEN <<>>
                      ELSE <<[n |-> WSub(run.n, m), e |-> run.e]>>)
                  \o st.rest]

\* The second loop, started at the index i, on the runs k down to 1.
RECURSIVE batch_backward_rest(_, _, _, _, _)
batch_backward_rest(input, starts, st, k, i) ==
    IF k < 1 THEN st
    ELSE Then(st, batch_backward_rest(
                      input, starts,
                      batch_backward_run(input.rest[k], starts[k], st,
                                         RunTurns(input, k, i)),
                      k - 1, i))

\* The second loop on data, after its turns on rest.
batch_backward_data(input, scratch, st, i) ==
    [data |-> batch_backward(input.data, scratch, st.acc,
                             IF Lt(i, Small(Len(input.data), 4))
                             THEN W2I(i) + 1 ELSE Len(input.data)),
     rest |-> st.rest]

\* The second loop and return input, start being where the loop starts.
batch_second(input, fw, acc, start) ==
    IF start.kind = "trap" THEN Throw("SignedOverflow")
    ELSE IF start.kind = "outside" THEN Throw("SIGSEGV")
    ELSE IF start.kind = "negative" THEN Ok(input)
    ELSE Ok(batch_backward_data(
                input, fw.scratch,
                batch_backward_rest(input, fw.starts,
                                    [acc |-> acc, rest |-> <<>>],
                                    Len(input.rest), start.i),
                start.i))

\* From acc = acc.inverse() on, inv being what inverse() gave.
batch_invert(input, fw, inv, sov) ==
    IF inv.err # "none" THEN inv
    ELSE batch_second(input, fw, inv.val, batch_start(BatchSize(input), sov))

\* After the first loop, fw being what it left.
batch_after_forward(input, fw, sov) ==
    IF fw.err # "none" THEN Throw(fw.err)
    ELSE batch_invert(input, fw, inverse_impl(fw.acc), sov)

\* The first loop on data, with no scratch of a run yet.
batch_forward_data(data, ndebug) ==
    [starts |-> <<>>] @@
        batch_forward(data, [i \in 1..Len(data) |-> ZERO], ONE, 1, ndebug)

\* FiniteField<BFieldElement>::batch_inversion(input).
batch_inversion(input, ndebug, sov) ==
    IF BatchSize(input) = ZeroW(4) THEN Ok([data |-> <<>>, rest |-> <<>>])
    ELSE batch_after_forward(
             input,
             batch_forward_rest(input.rest,
                                batch_forward_data(input.data, ndebug),
                                1, ndebug),
             sov)

\* The longest input written element by element.
MaxBatch == 3

RECURSIVE BatchInputs(_)
BatchInputs(n) ==
    IF n = 0 THEN {<<>>}
    ELSE BatchInputs(n - 1)
             \cup {Append(v, b) : v \in {u \in BatchInputs(n - 1) : Len(u) = n - 1},
                                  b \in BSeeds}

\* The sizes above INT_MAX: 2^31, 2^31 + 1, 2^32, 2^32 + 1, 2^32 + 3 and
\* 2^32 + 2^31 + 2.
HugeBatchSizes ==
    {<<0, 32768, 0, 0>>, <<1, 32768, 0, 0>>, <<0, 0, 1, 0>>, <<1, 0, 1, 0>>,
     <<3, 0, 1, 0>>, <<2, 32768, 1, 0>>}

\* How many elements of a vector of such a size are written one by one.
HeldBatch == 1

\* What the other elements are: a seed, or 2.
BatchFills == BSeeds \cup {new_element(<<2, 0, 0, 0>>)}

\* Vectors of up to MaxBatch seed elements, and vectors of a size above
\* INT_MAX of which all elements after the first HeldBatch are equal.
BatchVectors ==
    {[data |-> d, rest |-> <<>>] : d \in BatchInputs(MaxBatch)}
        \cup {[data |-> d, rest |-> <<[n |-> WSub(n, Small(Len(d), 4)),
                                       e |-> e]>>] :
                  d \in {u \in BatchInputs(HeldBatch) : Len(u) = HeldBatch},
                  n \in HugeBatchSizes, e \in BatchFills}

InitBatch ==
    /\ op = "init"
    /\ out = Ok(None)
    /\ ba = None /\ bb = None /\ bc = None
    /\ xa = None /\ xb = None /\ xc = None
    /\ ff = None /\ vec0 = None /\ prog = None /\ pc = None
    /\ divzero = None
    /\ vec \in BatchVectors
    /\ cin \in [ndebug : BOOLEAN, sov : BatchBuilds]

Batch_batch_inversion ==
    /\ op = "init"
    /\ op' = "batch_inversion"
    /\ out' = batch_inversion(vec, cin.ndebug, cin.sov)
    /\ UNCHANGED <<bvars, xvars, nvars, cin>>

NextBatch == Batch_batch_inversion

SpecBatch == InitBatch /\ [][NextBatch]_vars

\* The indices at which a vector may differ from the element before: those
\* of data, and the first of each run.
RunStarts(v) ==
    {Small(i - 1, 4) : i \in 1..Len(v.data)}
        \cup {RunStart(v, k) : k \in 1..Len(v.rest)}

\* No element of v is zero.
NoZero(v) ==
    /\ \A i \in 1..Len(v.data) : value(v.data[i]) # ZeroW(4)
    /\ \A k \in 1..Len(v.rest) : value(v.rest[k].e) # ZeroW(4)

\* C16: batch_inversion returns the empty sequence for the empty input and,
\* for every non-empty input of non-zero elements, a sequence of the same
\* length whose i-th element times input[i] is ONE, for every i (between
\* two indices of RunStarts the elements of a vector are equal).
C16_BatchInversionInvertsEach ==
    op = "batch_inversion" /\ NoZero(vec) =>
        /\ out.err = "none"
        /\ BatchSize(out.val) = BatchSize(vec)
        /\ \A i \in RunStarts(vec) \cup RunStarts(out.val) :
               value(BMul(BatchAt(out.val, i), BatchAt(vec, i))) = Small(1, 4)

\* C16 witness: three elements, two of them equal, have been inverted.
C16_Witness ==
    /\ op = "batch_inversion"
    /\ Len(vec.data) = 3 /\ vec.rest = <<>>
    /\ value(vec.data[1]) = value(vec.data[3])
    /\ value(vec.data[1]) # value(vec.data[2])
    /\ \A i \in 1..3 : value(vec.data[i]) \notin {ZeroW(4), Small(1, 4)}
    /\ out.err = "none"
    /\ Len(out.val.data) = 3

(***************************************************************************)
(* Primitive roots of unity of both fields.                                *)
(***************************************************************************)

\* XFieldElement::primitive_root_of_unity_impl(n), on what the base field
\* returned.  The handler is for std::runtime_error: catches says whether
\* the error of the base field is one (its base class Tip5xxError is
\* declared in a header that is not part of the sources at hand).
Xprimitive_root_of_unity_ret(b_root, catches) ==
    IF b_root.err = "none" THEN Ok(new_const(b_root.val))
    ELSE IF catches THEN Throw("XFieldElementError::NoRootOfUnity")
    ELSE b_root

Xprimitive_root_of_unity(n, catches) ==
    Xprimitive_root_of_unity_ret(primitive_root_of_unity(n), catches)

\* The largest power of two asked for is 2^MaxRootLog.
MaxRootLog == 40

\* 2^k as a 64-bit word (0 when k = 64).
Pow2W(k) == [i \in 1..4 |-> IF i = (k \div 16) + 1 THEN 2 ^ (k % 16) ELSE 0]

\* The orders asked for: 0, the powers of two, and 3, 6, 2^32 - 1,
\* 2^32 + 1, 3 * 2^32, 2^63 and UINT64_MAX.
RootInputs ==
    {Pow2W(k) : k \in 0..MaxRootLog}
        \cup {<<0, 0, 0, 0>>, <<3, 0, 0, 0>>, <<6, 0, 0, 0>>,
              <<65535, 65535, 0, 0>>, <<1, 0, 1, 0>>, <<0, 0, 3, 0>>,
              <<0, 0, 0, 32768>>, <<65535, 65535, 65535, 65535>>}

InitRoot ==
    /\ op = "init"
    /\ out = Ok(None)
    /\ ba = None /\ bb = None /\ bc = None
    /\ xa = None /\ xb = None /\ xc = None
    /\ ff = None /\ vec = None /\ vec0 = None /\ prog = None /\ pc = None
    /\ divzero = None
    /\ cin \in [n : RootInputs, catches : BOOLEAN]

\* w = BFieldElement::primitive_root_of_unity(n).
Root_primitive_root_of_unity ==
    /\ op = "init"
    /\ op' = "primitive_root_of_unity"
    /\ out' = primitive_root_of_unity(cin.n)
    /\ ba' = IF out'.err = "none" THEN out'.val ELSE ba
    /\ UNCHANGED <<bb, bc, xvars, nvars, cin>>

Root_Xprimitive_root_of_unity ==
    /\ op = "init"
    /\ op' = "xprimitive_root_of_unity"
    /\ out' = Xprimitive_root_of_unity(cin.n, cin.catches)
    /\ UNCHANGED <<bvars, xvars, nvars, cin>>

\* w.mod_pow(n).
Root_mod_pow_n ==
    /\ op = "primitive_root_of_unity"
    /\ out.err = "none"
    /\ op' = "mod_pow_n"
    /\ out' = Ok(mod_pow(ba, cin.n))
    /\ UNCHANGED <<bvars, xvars, nvars, cin>>

\* w.mod_pow(n / 2).
Root_mod_pow_half ==
    /\ op = "primitive_root_of_unity"
    /\ out.err = "none"
    /\ op' = "mod_pow_half"
    /\ out' = Ok(mod_pow(ba, Shr1(cin.n)))
    /\ UNCHANGED <<bvars, xvars, nvars, cin>>

NextRoot ==
    \/ Root_primitive_root_of_unity
    \/ Root_Xprimitive_root_of_unity
    \/ Root_mod_pow_n
    \/ Root_mod_pow_half

SpecRoot == InitRoot /\ [][NextRoot]_vars

\* The order is 0, 1 or 2^k with 1 <= k <= 32.
HasRoot(n) ==
    \/ n \in {<<0, 0, 0, 0>>, <<1, 0, 0, 0>>}
    \/ \E k \in 1..32 : n = Pow2W(k)

\* C17: BFieldElement::primitive_root_of_unity(n) succeeds exactly for n in
\* {0, 1} and n = 2^k, 1 <= k <= 32, with ONE for 0 and 1, and fails with
\* the error of a missing root for every other n; that of XFieldElement
\* succeeds for the same n, with new_const of the root of the base field,
\* and fails with the error of a missing root for the others.
C17_RootExistsExactlyForPowersOfTwo ==
    /\ op = "primitive_root_of_unity" =>
           /\ HasRoot(cin.n) <=> out.err = "none"
           /\ ~HasRoot(cin.n) => out.err = "BFieldElementPrimitiveRootError"
           /\ cin.n \in {<<0, 0, 0, 0>>, <<1, 0, 0, 0>>} =>
                  value(out.val) = <<1, 0, 0, 0>>
    /\ op = "xprimitive_root_of_unity" =>
           /\ HasRoot(cin.n) <=> out.err = "none"
           /\ ~HasRoot(cin.n) =>
                  out.err \in {"XFieldElementError::NoRootOfUnity",
                               "BFieldElementPrimitiveRootError"}
           /\ HasRoot(cin.n) =>
                  /\ out.val[1] = primitive_root_of_unity(cin.n).val
                  /\ value(out.val[2]) = ZeroW(4)
                  /\ value(out.val[3]) = ZeroW(4)

\* C17 witness: the order 2^33 has been refused.
C17_Witness ==
    /\ op = "primitive_root_of_unity"
    /\ cin.n = <<0, 0, 2, 0>>
    /\ out.err = "BFieldElementPrimitiveRootError"

\* C18: for n = 2^k, 1 <= k <= 32, and w = primitive_root_of_unity(n),
\* w.mod_pow(n) is ONE and w.mod_pow(n / 2) is not.
C18_TableRootsArePrimitive ==
    /\ op = "primitive_root_of_unity" /\ HasRoot(cin.n) => out.err = "none"
    /\ op = "mod_pow_n" => value(out.val) = <<1, 0, 0, 0>>
    /\ op = "mod_pow_half" /\ cin.n \notin {<<0, 0, 0, 0>>, <<1, 0, 0, 0>>} =>
           value(out.val) # <<1, 0, 0, 0>>

\* C18 witness: the root of order 2^32 has been raised to 2^31.
C18_Witness ==
    /\ op = "mod_pow_half"
    /\ cin.n = <<0, 0, 1, 0>>
    /\ value(out.val) = <<0, 0, 65535, 65535>>

(***************************************************************************)
(* Powers: mod_pow_u64 and mod_pow_u32 of both fields.                     *)
(***************************************************************************)

\* One turn of the while loop without base *= base.
Xmod_pow_step_NoSquare(st, bit) ==
    [result |-> IF bit = 1 THEN XMul(st.result, st.base) ELSE st.result,
     base |-> st.base]

\* One turn of the while loop of XFieldElement::mod_pow_u64_impl, bit being
\* exp & 1.
Xmod_pow_step(st, bit) ==
    [result |-> IF bit = 1 THEN XMul(st.result, st.base) ELSE st.result,
     base |-> XMul(st.base, st.base)]

\* The turns lo .. hi - 1 of the loop; turn i sees bit i of the exponent.
RECURSIVE Xmod_pow_loop(_, _, _, _)
Xmod_pow_loop(st, e, lo, hi) ==
    IF hi <= lo THEN st
    ELSE IF hi = lo + 1 THEN Xmod_pow_step(st, Bit(e, lo))
    ELSE Then(st, Xmod_pow_loop(Xmod_pow_loop(st, e, lo, (lo + hi) \div 2),
                                e, (lo + hi) \div 2, hi))

\* XFieldElement::mod_pow_u64_impl(exp): the loop runs while exp > 0.
Xmod_pow_u64(x, e) ==
    Xmod_pow_loop([result |-> XONE, base |-> x], e, 0, bit_length(e)).result

\* XFieldElement::mod_pow_u32_impl(exp): the exponent zero-extended.
Xmod_pow_u32(x, e) == Xmod_pow_u64(x, Cast(e, 4))

\* The small exponents are 0 .. MaxSmallExp.
MaxSmallExp == 6

\* The exponents: the small ones, and 2^16, 2^32 - 1, 2^32, 2^32 + 1,
\* P - 1, 2^63 and UINT64_MAX.
PowInputs ==
    {Small(k, 4) : k \in 0..MaxSmallExp}
        \cup {<<0, 1, 0, 0>>, <<65535, 65535, 0, 0>>, <<0, 0, 1, 0>>,
              <<1, 0, 1, 0>>, <<0, 0, 65535, 65535>>, <<0, 0, 0, 32768>>,
              <<65535, 65535, 65535, 65535>>}

\* The base is an element of one of the two fields.
InitPow ==
    /\ op = "init"
    /\ out = Ok(None)
    /\ \/ ba \in BSeeds /\ xa = None
       \/ ba = None /\ xa \in XSeeds
    /\ bb = None /\ bc = None
    /\ xb = None /\ xc = None
    /\ ff = None /\ vec = None /\ vec0 = None /\ prog = None /\ pc = None
    /\ divzero = None
    /\ cin \in [e : PowInputs]

B_mod_pow_u64 ==
    /\ op = "init" /\ ba # None
    /\ op' = "mod_pow_u64"
    /\ out' = Ok(mod_pow_u64(ba, cin.e))
    /\ UNCHANGED <<bvars, xvars, nvars, cin>>

\* The exponent is a uint32_t.
B_mod_pow_u32 ==
    /\ op = "init" /\ ba # None
    /\ cin.e[3] = 0 /\ cin.e[4] = 0
    /\ op' = "mod_pow_u32"
    /\ out' = Ok(mod_pow_u32(ba, Cast(cin.e, 2)))
    /\ UNCHANGED <<bvars, xvars, nvars, cin>>

X_mod_pow_u64 ==
    /\ op = "init" /\ xa # None
    /\ op' = "xmod_pow_u64"
    /\ out' = Ok(Xmod_pow_u64(xa, cin.e))
    /\ UNCHANGED <<bvars, xvars, nvars, cin>>

X_mod_pow_u32 ==
    /\ op = "init" /\ xa # None
    /\ cin.e[3] = 0 /\ cin.e[4] = 0
    /\ op' = "xmod_pow_u32"
    /\ out' = Ok(Xmod_pow_u32(xa, Cast(cin.e, 2)))
    /\ UNCHANGED <<bvars, xvars, nvars, cin>>

NextPow == B_mod_pow_u64 \/ B_mod_pow_u32 \/ X_mod_pow_u64 \/ X_mod_pow_u32

SpecPow == InitPow /\ [][NextPow]_vars

\* Equality of two elements, each worked out once.
BSame(x, y) == Then(<<x, y>>, BEq(x, y))

XSame(l, r) == Then(<<l, r>>, XEq(l, r))

\* The product of two XFieldElements, each worked out once.
XTimes(l, r) == Then(<<l, r>>, XMul(l, r))

\* The product of k copies of an element, k a small number: ONE (of the
\* field) when k = 0.
RECURSIVE BProduct(_, _)
BProduct(a, k) == IF k = 0 THEN ONE ELSE BMul(BProduct(a, k - 1), a)

RECURSIVE XProduct(_, _)
XProduct(t, k) == IF k = 0 THEN XONE ELSE XTimes(XProduct(t, k - 1), t)

IsSmallExp(e) == e[1] <= MaxSmallExp /\ e[2] = 0 /\ e[3] = 0 /\ e[4] = 0

\* The power with the exponent e, in each field.
BPower(a, e) == Then(e, mod_pow_u64(a, e))

XPower(t, e) == Then(e, Xmod_pow_u64(t, e))

\* C19: mod_pow_u64(e) is the product of e copies of the element, ONE for
\* e = 0 (also for ZERO), in both fields: it is that product, formed one
\* factor at a time, for a small e, and for a larger e it is mod_pow_u64(e - 1)
\* times the element; and mod_pow_u32(e) is mod_pow_u64(e).
C19_ModPowIsRepeatedProduct ==
    /\ op = "mod_pow_u64" =>
           /\ out.err = "none"
           /\ IF IsSmallExp(cin.e)
              THEN BSame(out.val, BProduct(ba, cin.e[1]))
              ELSE BSame(out.val,
                       BMul(BPower(ba, WSub(cin.e, Small(1, 4))), ba))
           /\ cin.e = ZeroW(4) => value(out.val) = Small(1, 4)
    /\ op = "xmod_pow_u64" =>
           /\ out.err = "none"
           /\ IF IsSmallExp(cin.e)
              THEN XSame(out.val, XProduct(xa, cin.e[1]))
              ELSE XSame(out.val,
                       XTimes(XPower(xa, WSub(cin.e, Small(1, 4))), xa))
           /\ cin.e = ZeroW(4) => XSame(out.val, XONE)
    /\ op = "mod_pow_u32" => BSame(out.val, mod_pow_u64(ba, cin.e))
    /\ op = "xmod_pow_u32" => XSame(out.val, Xmod_pow_u64(xa, cin.e))

\* C19 witness: x^2 has been raised to the power 5, which is x^10 = a
\* product of five copies that is neither ZERO nor ONE.
C19_Witness ==
    /\ op = "xmod_pow_u64"
    /\ cin.e = Small(5, 4)
    /\ value(xa[3]) = Small(1, 4)
    /\ value(xa[1]) = ZeroW(4)
    /\ value(xa[2]) = ZeroW(4)
    /\ ~XEq(out.val, XONE)
    /\ ~XEq(out.val, XZERO)

(***************************************************************************)
(* cyclic_group_elements of the base field.  max is a small number.        *)
(***************************************************************************)

\* The while loop with result.size() <= max for the cap.
RECURSIVE cyclic_group_loop_CapOffByOne(_, _, _, _)
cyclic_group_loop_CapOffByOne(x, val, result, max) ==
    IF ~is_one(val) /\ (max = 0 \/ Len(result) <= max)
    THEN Then(<<val, result>>,
              cyclic_group_loop_CapOffByOne(x, BMul(val, x),
                                            Append(result, val), max))
    ELSE result

\* The while loop of cyclic_group_elements_impl.
RECURSIVE cyclic_group_loop(_, _, _, _)
cyclic_group_loop(x, val, result, max) ==
    IF ~is_one(val) /\ (max = 0 \/ Len(result) < max)
    THEN Then(<<val, result>>,
              cyclic_group_loop(x, BMul(val, x), Append(result, val), max))
    ELSE result

\* BFieldElement::cyclic_group_elements_impl(max).
cyclic_group_elements(x, max) ==
    IF is_zero(x) THEN <<ZERO>>
    ELSE cyclic_group_loop(x, x, <<ONE>>, max)

\* Without a cap the generators have an order of 2^MaxOrderLog at most; the
\* caps are 1 .. MaxCap.
MaxOrderLog == 4

MaxCap == 6

\* Generators of a small order: ZERO, ONE, the primitive roots of unity of
\* the orders 2 .. 2^MaxOrderLog, and the cube of each.
SmallOrderGenerators ==
    {ZERO, ONE}
        \cup {primitive_root_of_unity(Pow2W(k)).val : k \in 1..MaxOrderLog}
        \cup {mod_pow(primitive_root_of_unity(Pow2W(k)).val, Small(3, 4)) :
                  k \in 1..MaxOrderLog}

\* Generators of an order above every cap: 2 (order 192), 7 (order p - 1)
\* and a value of all 64 bits.
LargeOrderGenerators ==
    {new_element(<<2, 0, 0, 0>>), new_element(<<7, 0, 0, 0>>),
     new_element(<<50356, 32904, 12127, 9874>>)}

InitCyc ==
    /\ op = "init"
    /\ out = Ok(None)
    /\ bb = None /\ bc = None
    /\ xa = None /\ xb = None /\ xc = None
    /\ ff = None /\ vec = None /\ vec0 = None /\ prog = None /\ pc = None
    /\ divzero = None
    /\ \/ ba \in SmallOrderGenerators /\ cin \in [max : 0..MaxCap]
       \/ ba \in LargeOrderGenerators /\ cin \in [max : 1..MaxCap]

B_cyclic_group_elements ==
    /\ op = "init"
    /\ op' = "cyclic_group_elements"
    /\ out' = Ok(cyclic_group_elements(ba, cin.max))
    /\ UNCHANGED <<bvars, xvars, nvars, cin>>

NextCyc == B_cyclic_group_elements

SpecCyc == InitCyc /\ [][NextCyc]_vars

\* The orders looked for: up to the largest small order and the largest cap.
OrderBound == IF 2 ^ MaxOrderLog > MaxCap THEN 2 ^ MaxOrderLog ELSE MaxCap

\* The multiplicative order of g # ZERO, or OrderBound + 1 if it is larger
\* than OrderBound.
Order(g) ==
    IF \E d \in 1..OrderBound : BEq(mod_pow(g, Small(d, 4)), ONE)
    THEN CHOOSE d \in 1..OrderBound :
             /\ BEq(mod_pow(g, Small(d, 4)), ONE)
             /\ \A c \in 1..(d - 1) : ~BEq(mod_pow(g, Small(c, 4)), ONE)
    ELSE OrderBound + 1

\* How many elements are due: the order, or the cap if it is less.
Due(g, max) ==
    IF max = 0 \/ Order(g) < max THEN Order(g) ELSE max

\* C20: cyclic_group_elements of g is [ZERO] for g = ZERO and [ONE] for
\* g = ONE; for another g, of order d, and no cap it is [g^0, ..., g^(d-1)],
\* d elements that differ from each other, element i being g.mod_pow(i);
\* with a cap max > 0 it is the first min(max, d) of these.
C20_CyclicGroupIsPowersUpToOrder ==
    op = "cyclic_group_elements" =>
        /\ out.err = "none"
        /\ value(ba) = ZeroW(4) =>
               Len(out.val) = 1 /\ value(out.val[1]) = ZeroW(4)
        /\ value(ba) = Small(1, 4) =>
               Len(out.val) = 1 /\ value(out.val[1]) = Small(1, 4)
        /\ value(ba) \notin {ZeroW(4), Small(1, 4)} =>
               /\ Len(out.val) = Due(ba, cin.max)
               /\ \A i \in 1..Len(out.val) :
                      value(out.val[i]) = value(mod_pow(ba, Small(i - 1, 4)))
               /\ \A i, j \in 1..Len(out.val) :
                      i # j => value(out.val[i]) # value(out.val[j])

\* C20 witness: a generator of order 16 with no cap has given 16 elements.
C20_Witness ==
    /\ op = "cyclic_group_elements"
    /\ cin.max = 0
    /\ Len(out.val) = 16
    /\ value(out.val[9]) = <<0, 0, 65535, 65535>>

(***************************************************************************)
(* montyred and mod_reduce on 128-bit words.                               *)
(***************************************************************************)

\* 64-bit halves the 128-bit inputs are made of: 0, 1, 2, 2^32 - 1, 2^32,
\* 2^32 + 1, 2^63 - 1, 2^63, R2, 2^64 - 2^32 - 1, 2^64 - 2^32, P - 1 = MAX,
\* P, P + 1, 2^64 - 2, 2^64 - 1 and values of all 64 bits.
HalfValues ==
    <<<<0, 0, 0, 0>>, <<1, 0, 0, 0>>, <<65535, 65535, 65535, 65535>>,
      <<0, 0, 65535, 65535>>, <<1, 0, 65535, 65535>>,
      <<65535, 65535, 0, 0>>, <<0, 0, 1, 0>>, <<2, 0, 65535, 65535>>,
      <<50356, 32904, 12127, 9874>>, <<65535, 65535, 65534, 65535>>,
      <<1, 0, 65534, 65535>>, <<0, 0, 0, 32768>>,
      <<65535, 65535, 65535, 32767>>, <<1, 0, 1, 0>>, <<2, 0, 0, 0>>,
      <<65534, 65535, 65535, 65535>>, <<61301, 25000, 15955, 28942>>,
      <<0, 0, 65534, 65535>>>>

\* How many of the halves are used.
NumHalves == 16

Halves ==
    {HalfValues[i] :
        i \in 1..(IF NumHalves < Len(HalfValues) THEN NumHalves
                  ELSE Len(HalfValues))}

\* The inputs: a high and a low half, or the product of two halves (of two
\* Montgomery words, or of a value and R2).
WideInputs ==
    {lo \o hi : lo \in Halves, hi \in Halves}
        \cup {WMul(a, b) : a \in Halves, b \in Halves}

InitWide ==
    /\ op = "init"
    /\ out = Ok(None)
    /\ ba = None /\ bb = None /\ bc = None
    /\ xa = None /\ xb = None /\ xc = None
    /\ ff = None /\ vec = None /\ vec0 = None /\ prog = None /\ pc = None
    /\ divzero = None
    /\ cin \in [x : WideInputs]

Wide_montyred ==
    /\ op = "init"
    /\ op' = "montyred"
    /\ out' = Ok(montyred(cin.x))
    /\ UNCHANGED <<bvars, xvars, nvars, cin>>

Wide_mod_reduce ==
    /\ op = "init"
    /\ op' = "mod_reduce"
    /\ out' = Ok(mod_reduce(cin.x))
    /\ UNCHANGED <<bvars, xvars, nvars, cin>>

NextWide == Wide_montyred \/ Wide_mod_reduce

SpecWide == InitWide /\ [][NextWide]_vars

\* The remainder modulo p of a 128-bit word, as a 64-bit word.
ModP(x) == Cast(WMod(x, Cast(P, 8)), 4)

\* C21: for every 128-bit x < p * 2^64 (so for the product of two
\* Montgomery words below p, and for v * R2 with v < 2^64), montyred(x) is
\* the r in [0, p) with r * 2^64 congruent to x modulo p.
C21_MontyredDividesByTwoTo64 ==
    op = "montyred" /\ Lt(Hi64(cin.x), P) =>
        /\ Lt(out.val, P)
        /\ ModP(ZeroW(4) \o out.val) = ModP(cin.x)

\* C21 witness: montyred has run on an x < p * 2^64 for which both the
\* carry e and the borrow c are set.
C21_Witness ==
    /\ op = "montyred"
    /\ Lt(Hi64(cin.x), P)
    /\ Lt(WAdd(Lo64(cin.x), Shl32(Lo64(cin.x))), Lo64(cin.x))
    /\ Lt(Hi64(cin.x), montyred_a(Lo64(cin.x), Shl32(Lo64(cin.x))))
    /\ Lt(out.val, P)

\* C23 as stated: for every 128-bit x, mod_reduce(x) lies in [0, p) and is
\* congruent to x modulo p.
C23_ModReduceBelowP ==
    op = "mod_reduce" =>
        /\ Lt(out.val, P)
        /\ ModP(Cast(out.val, 8)) = ModP(cin.x)

\* C23 amended: for every 128-bit x, mod_reduce(x) is a 64-bit value
\* congruent to x modulo p, and x itself when x < 2^64; it can be p or more.
C23_ModReduceCongruent ==
    op = "mod_reduce" =>
        /\ ModP(Cast(out.val, 8)) = ModP(cin.x)
        /\ Hi64(cin.x) = ZeroW(4) => out.val = Lo64(cin.x)

\* C23 witness: mod_reduce has run on an x of more than 64 bits with
\* x_lo < x_hi_hi, and returned a value that is not below p.
C23_Witness ==
    /\ op = "mod_reduce"
    /\ Lt(Lo64(cin.x), <<cin.x[7], cin.x[8], 0, 0>>)
    /\ ~Lt(out.val, P)
    /\ ModP(Cast(out.val, 8)) = ModP(cin.x)

(***************************************************************************)
(* The stored Montgomery word.  An element of the model is its stored word *)
(* value_, so the operands are drawn as words below P (every such word is  *)
(* the stored word of one element), and the producers of elements run on   *)
(* the integers and texts of the conversions.                              *)
(***************************************************************************)

\* increment: *this += ONE.  decrement: *this -= ONE.
increment(x) == BAdd(x, ONE)

decrement(x) == BSub(x, ONE)

\* Stored words below P: 0, 1, P - 1, P - 2, 2^32 - 1 (the word of ONE),
\* 2^32, 2^63, P - 2^32 + 1, and words that use all 64 bits.
WordSeedValues ==
    <<<<0, 0, 0, 0>>,
      <<1, 0, 0, 0>>,
      <<0, 0, 65535, 65535>>,
      <<65535, 65535, 65534, 65535>>,
      <<65535, 65535, 0, 0>>,
      <<0, 0, 1, 0>>,
      <<0, 0, 0, 32768>>,
      <<2, 0, 65534, 65535>>,
      <<50356, 32904, 12127, 9874>>,
      <<61301, 25000, 15955, 28942>>>>

\* How many of the stored words are used.
NumWordSeeds == 8

WordSeeds ==
    {WordSeedValues[i] :
        i \in 1..(IF NumWordSeeds < Len(WordSeedValues) THEN NumWordSeeds
                  ELSE Len(WordSeedValues))}

\* The inputs of one run when nothing else is chosen: the integer 0 of type
\* uint64_t, the text "0", the exponent 2.
WordDefault ==
    [ty |-> "u64", w |-> ZeroW(4), s |-> <<48>>, sov |-> "wrap",
     e |-> Small(2, 4)]

\* Either the two operands vary, or one operand and the exponent, or the
\* integer, or the text.
InitWord ==
    /\ op = "init"
    /\ out = Ok(None)
    /\ bc = None
    /\ xa = None /\ xb = None /\ xc = None
    /\ ff = None /\ vec = None /\ vec0 = None /\ prog = None /\ pc = None
    /\ divzero = None
    /\ \/ ba \in WordSeeds /\ bb \in WordSeeds /\ cin = WordDefault
       \/ /\ ba \in WordSeeds /\ bb = ZERO
          /\ \E e \in PowInputs : cin = [WordDefault EXCEPT !.e = e]
       \/ /\ ba = ZERO /\ bb = ZERO
          /\ \E ty \in IntTypes : \E w \in ConvInputs(ty) :
                 cin = [WordDefault EXCEPT !.ty = ty, !.w = w]
       \/ /\ ba = ZERO /\ bb = ZERO
          /\ \E s \in StrInputs : \E sov \in TextBuilds :
                 cin = [WordDefault EXCEPT !.s = s, !.sov = sov]

B_increment ==
    /\ op = "init"
    /\ op' = "increment"
    /\ out' = Ok(increment(ba))
    /\ UNCHANGED <<bvars, xvars, nvars, cin>>

B_decrement ==
    /\ op = "init"
    /\ op' = "decrement"
    /\ out' = Ok(decrement(ba))
    /\ UNCHANGED <<bvars, xvars, nvars, cin>>

NextWord ==
    \/ B_Add
    \/ B_Sub
    \/ B_Neg
    \/ B_Mul
    \/ B_Div
    \/ B_Inverse
    \/ B_mod_pow_u64
    \/ B_increment
    \/ B_decrement
    \/ Conv_new_element
    \/ Conv_try_new
    \/ Conv_from_raw_bytes
    \/ Conv_from_raw_u16s
    \/ Conv_bfe_from
    \/ Str_bfe_from_string
    \/ Str_bfe_from_hex_string

SpecWord == InitWord /\ [][NextWord]_vars

\* C22: every element that a constructor, a conversion or a text parser
\* returns, and every result of +, -, unary -, *, /, inverse, mod_pow,
\* increment and decrement on operands whose stored words are below P, has a
\* stored word below P.
C22_StoredWordBelowP ==
    op # "init" /\ out.err = "none" => Lt(out.val, P)

\* A subtraction that borrows, an addition that passes P, a product and a
\* parsed text have each returned an element.
C22_Witness ==
    /\ out.err = "none" /\ Lt(out.val, P)
    /\ \/ op = "sub" /\ Lt(ba, bb)
       \/ op = "decrement" /\ ba = ZERO
       \/ op = "increment" /\ ba = WSub(P, Small(1, 4))

(***************************************************************************)
(* The transform as a sum.                                                 *)
(***************************************************************************)

\* data[1] * w^0 + data[2] * w^k + ... + data[n] * w^((n-1)*k), the terms
\* added in this order with the operators of the field.
RECURSIVE DftSum(_, _, _, _, _)
DftSum(ffv, data, w, k, n) ==
    IF n = 1 THEN FMulB(ffv, data[1], mod_pow_u64(w, Small(0, 4)))
    ELSE FAdd(ffv, DftSum(ffv, data, w, k, n - 1),
              FMulB(ffv, data[n], mod_pow_u64(w, Small((n - 1) * k, 4))))

\* The discrete Fourier transform of a vector held whole, in natural order.
Dft(ffv, v, w) ==
    [v EXCEPT !.data =
        [k \in 1..Len(v.data) |-> DftSum(ffv, v.data, w, k - 1, Len(v.data))]]

\* C24: for every vector x of a power-of-two length n, ntt returns and leaves
\* at index k the sum over j of x[j] * w^(j*k), w being
\* primitive_root_of_unity(n), in natural order (checked element by element
\* on the vectors held whole).
C24_NttIsDft ==
    op = "ntt" /\ pc = 1 /\ IsPowerOfTwo(vec0.size) =>
        /\ out.err = "none"
        /\ vec0.size \in SmallSizes =>
               SameVec(ff, vec,
                       Dft(ff, vec0, primitive_root_of_unity(vec0.size).val))

(***************************************************************************)
(* The four checked transforms on lengths they refuse: one call on a       *)
(* vector whose length is not a power of two, or is a power of two above   *)
(* 2^32.                                                                   *)
(***************************************************************************)

\* The powers of two above 2^32 are 2^33 .. 2^MaxHugeLog, and 2^63.
MaxHugeLog == 34

HugeSizes == {Pow2W(k) : k \in 33..MaxHugeLog} \cup {Pow2W(63)}

\* 3, 5, 6, 7, 2^32 - 1, 2^32 + 1 and 2^33 + 1.
OddSizes ==
    {Small(3, 4), Small(5, 4), Small(6, 4), Small(7, 4),
     <<65535, 65535, 0, 0>>, <<1, 0, 1, 0>>, <<1, 0, 2, 0>>}

InitLen ==
    /\ op = "init"
    /\ out = Ok(None)
    /\ ba = None /\ bb = None /\ bc = None
    /\ xa = None /\ xb = None /\ xc = None
    /\ cin = None
    /\ ff \in {"B", "X"}
    /\ divzero \in {"trap", "zero"}
    /\ prog \in {<<"ntt">>, <<"intt">>, <<"ntt_noswap">>, <<"intt_noswap">>}
    /\ pc = 0
    /\ vec0 \in {InputVec(ff, size, k) :
                    size \in HugeSizes \cup OddSizes, k \in 1..NumPatterns}
    /\ vec = vec0

NextLen == N_ntt \/ N_intt \/ N_ntt_noswap \/ N_intt_noswap

SpecLen == InitLen /\ [][NextLen]_vars

\* C25: ntt, intt, ntt_noswap and intt_noswap on a vector whose length is a
\* power of two above 2^32 fail with the invalid-length error, the one they
\* raise for a length that is not a power of two.
C25_TooLongIsInvalidLength ==
    pc = 1 /\ vec0.size \in HugeSizes => out.err = "invalid_argument"

\* C26: when ntt, intt, ntt_noswap or intt_noswap fails, for a length that is
\* not a power of two or for one that has no root of unity, the vector is as
\* it was passed in, element by element and in the same order.
C26_FailureLeavesVector ==
    pc = 1 /\ out.err # "none" => vec = vec0

\* C26 witness: a call has failed for the want of a root on a vector whose
\* held elements differ, and one for the length on a vector held whole.
C26_Witness ==
    /\ pc = 1 /\ vec = vec0
    /\ \/ /\ out.err = "BFieldElementPrimitiveRootError"
          /\ vec0.data[1] # vec0.data[2]
       \/ /\ out.err = "invalid_argument"
          /\ Held(vec0) /\ vec0.data[1] # vec0.data[3]

(***************************************************************************)
(* cyclic_group_elements of both fields: does the call return.             *)
(***************************************************************************)

\* XFieldElement::is_one.
Xis_one(t) == XEq(t, XONE)

\* One test of the while condition of cyclic_group_elements_impl and, where
\* it holds, one turn of the loop; done once the condition has failed.
Xcyclic_group_turn(t, st, max) ==
    IF st.done THEN st
    ELSE IF ~Xis_one(st.current) /\ (max = 0 \/ Len(st.result) < max)
    THEN [current |-> XMul(st.current, t),
          result |-> Append(st.result, st.current),
          done |-> FALSE]
    ELSE [st EXCEPT !.done = TRUE]

\* The while loop of XFieldElement::cyclic_group_elements_impl: the state
\* after the turns lo .. hi-1 (split in halves as in exp_loop).
RECURSIVE Xcyclic_group_loop(_, _, _, _, _)
Xcyclic_group_loop(t, st, max, lo, hi) ==
    IF hi <= lo THEN st
    ELSE IF hi = lo + 1 THEN Xcyclic_group_turn(t, st, max)
    ELSE Then(st, Xcyclic_group_loop(t,
                      Xcyclic_group_loop(t, st, max, lo, (lo + hi) \div 2),
                      max, (lo + hi) \div 2, hi))

\* The condition holds without a cap and a turn leaves current as it is
\* (ZERO * t): every further test of the condition finds the same.
Xcyclic_group_stuck(t, st, max) ==
    /\ ~st.done
    /\ max = 0
    /\ ~Xis_one(st.current)
    /\ XEq(XMul(st.current, t), st.current)

\* The while loop to its end: n turns, then 2n, until the condition has
\* failed or cannot fail any more.
RECURSIVE Xcyclic_group_run(_, _, _, _)
Xcyclic_group_run(t, st, max, n) ==
    IF st.done \/ Xcyclic_group_stuck(t, st, max) THEN st
    ELSE Then(st, Xcyclic_group_run(t, Xcyclic_group_loop(t, st, max, 0, n),
                                    max, 2 * n))

\* return result; a loop that cannot end pushes until push_back finds no
\* memory.
Xcyclic_group_ret(st) ==
    IF st.done THEN Ok(st.result) ELSE Throw("bad_alloc")

\* XFieldElement::cyclic_group_elements_impl(max): no case for zero.
Xcyclic_group_elements(t, max) ==
    Xcyclic_group_ret(
        Xcyclic_group_run(t, [current |-> t, result |-> <<XONE>>,
                              done |-> FALSE],
                          max, 1))

\* The generator of B and its lift with any cap, or a generator of a large
\* order of B and one of X with a cap.
InitBoth ==
    /\ op = "init"
    /\ out = Ok(None)
    /\ bb = None /\ bc = None
    /\ xb = None /\ xc = None
    /\ ff = None /\ vec = None /\ vec0 = None /\ prog = None /\ pc = None
    /\ divzero = None
    /\ \/ /\ ba \in SmallOrderGenerators
          /\ xa = new_const(ba)
          /\ cin \in [max : 0..MaxCap]
       \/ /\ ba \in LargeOrderGenerators
          /\ xa \in XSeeds \cup {new_const(ba)}
          /\ cin \in [max : 1..MaxCap]

X_cyclic_group_elements ==
    /\ op = "init"
    /\ op' = "xcyclic_group_elements"
    /\ out' = Xcyclic_group_elements(xa, cin.max)
    /\ UNCHANGED <<bvars, xvars, nvars, cin>>

NextBoth == B_cyclic_group_elements \/ X_cyclic_group_elements

SpecBoth == InitBoth /\ [][NextBoth]_vars

\* C27: cyclic_group_elements returns a sequence, for every element of B and
\* of X, the zero of each included, with a cap and without one.
C27_CyclicGroupReturns ==
    op \in {"cyclic_group_elements", "xcyclic_group_elements"} =>
        out.err = "none" /\ Len(out.val) >= 1

(***************************************************************************)
(* XFieldElement::inverse() and the scalar it inverts in B.                *)
(***************************************************************************)

\* The seed elements, and w + x and 1 + w*x for the primitive roots of unity
\* w of the orders 2 .. 2^MaxOrderLog.
ScalarInputs ==
    XSeeds
        \cup {<<primitive_root_of_unity(Pow2W(k)).val, ONE, ZERO>> :
                  k \in 1..MaxOrderLog}
        \cup {<<ONE, primitive_root_of_unity(Pow2W(k)).val, ZERO>> :
                  k \in 1..MaxOrderLog}

InitScalar ==
    /\ op = "init"
    /\ out = Ok(None)
    /\ ba = None /\ bb = None /\ bc = None
    /\ xa \in ScalarInputs
    /\ xb \in ScalarInputs
    /\ xc = None
    /\ ff = None /\ vec = None /\ vec0 = None /\ prog = None /\ pc = None
    /\ divzero = None /\ cin = None

NextScalar == X_Inverse \/ X_inverse_or_zero \/ X_Div

SpecScalar == InitScalar /\ [][NextScalar]_vars

\* C28: XFieldElement::inverse() raises an error for the zero element only:
\* for every non-zero t the call returns a value, and no error of the
\* inversion in B of d0^2 + d1^2 + d2^2 escapes.
C28_XInverseFailsOnlyForZero ==
    op = "xinverse" => (out.err # "none" <=> Xis_zero(xa))

(***************************************************************************)
(* Texts that write no number.                                             *)
(***************************************************************************)

\* The text without the whitespace before its first and after its last
\* character that is none.
Stripped(s) ==
    IF \A i \in 1..Len(s) : s[i] \in Whitespace THEN <<>>
    ELSE SubSeq(s,
                CHOOSE i \in 1..Len(s) :
                    /\ s[i] \notin Whitespace
                    /\ \A j \in 1..(i - 1) : s[j] \in Whitespace,
                CHOOSE i \in 1..Len(s) :
                    /\ s[i] \notin Whitespace
                    /\ \A j \in (i + 1)..Len(s) : s[j] \in Whitespace)

\* C29: bfe_from_string fails with Empty or InvalidDigit for every text
\* that, stripped of whitespace and of one leading sign, is empty or has a
\* character that is no decimal digit (texts with the prefix 0x or 0X
\* apart): a sign alone is rejected.
C29_SignNeedsDigits ==
    op = "bfe_from_string" /\ ~has_hex_prefix(Stripped(cin.s))
        /\ ~AllDigits(Stripped(cin.s), SignLen(Stripped(cin.s)) + 1, 10) =>
            out.err \in {"Empty", "InvalidDigit"}

(***************************************************************************)
(* Display: to_string and operator<< on a stream in its initial state, as  *)
(* character codes, and the text parsed back.                              *)
(***************************************************************************)

\* os << v for a uint64_t v: its decimal digits, the first not 0 unless v
\* is 0.
RECURSIVE decimal(_)
decimal(v) ==
    IF Lt(v, Small(10, 4)) THEN <<48 + v[1]>>
    ELSE Then(v, Append(decimal(WDiv(v, Small(10, 4))),
                        48 + W2I(WMod(v, Small(10, 4)))))

\* The text written with width(w) and fill(c): filled on the left.
filled(str, w, c) ==
    IF Len(str) >= w THEN str ELSE [i \in 1..(w - Len(str)) |-> c] \o str

\* const uint64_t cutoff = 256;
cutoff == <<256, 0, 0, 0>>

\* to_string with the difference P - canonical_value written without "-".
to_string_NoMinus(x) ==
    IF ~Lt(value(x), WSub(P, cutoff)) THEN decimal(WSub(P, value(x)))
    ELSE IF ~Lt(cutoff, value(x)) THEN decimal(value(x))
    ELSE filled(decimal(value(x)), 20, 48)

\* BFieldElement::to_string.
to_string(x) ==
    IF ~Lt(value(x), WSub(P, cutoff))
    THEN <<45>> \o decimal(WSub(P, value(x)))
    ELSE IF ~Lt(cutoff, value(x)) THEN decimal(value(x))
    ELSE filled(decimal(value(x)), 20, 48)

\* operator<<(std::ostream&, const BFieldElement&): what it writes.
ostream_write(bfe) ==
    IF ~Lt(value(bfe), WSub(P, cutoff))
    THEN <<45>> \o decimal(WSub(P, value(bfe)))
    ELSE IF ~Lt(cutoff, value(bfe)) THEN decimal(value(bfe))
    ELSE filled(decimal(value(bfe)), 20, 48)

\* The canonical values displayed: 0, 1, 9, 10, 42, 255, 256, 257, 2^32,
\* P/2, 10^19 - 1, 10^19, P - 257, P - 256, P - 255, P - 42, P - 1 and two
\* values of all 64 bits.
ShowValues ==
    <<<<0, 0, 0, 0>>,
      <<256, 0, 0, 0>>,
      <<257, 0, 0, 0>>,
      <<65280, 65535, 65534, 65535>>,
      <<65281, 65535, 65534, 65535>>,
      <<0, 0, 65535, 65535>>,
      <<1, 0, 0, 0>>,
      <<9, 0, 0, 0>>,
      <<10, 0, 0, 0>>,
      <<42, 0, 0, 0>>,
      <<255, 0, 0, 0>>,
      <<0, 0, 1, 0>>,
      <<0, 32768, 65535, 32767>>,
      <<65535, 35303, 8964, 35527>>,
      <<0, 35304, 8964, 35527>>,
      <<65282, 65535, 65534, 65535>>,
      <<65495, 65535, 65534, 65535>>,
      <<50356, 32904, 12127, 9874>>,
      <<61301, 25000, 15955, 28942>>,
      <<65279, 65535, 65534, 65535>>>>

\* How many of the values are displayed.
NumShown == 19

InitShow ==
    /\ op = "init"
    /\ out = Ok(None)
    /\ \E i \in 1..(IF NumShown < Len(ShowValues) THEN NumShown
                     ELSE Len(ShowValues)) : ba = new_element(ShowValues[i])
    /\ bb = None /\ bc = None
    /\ xa = None /\ xb = None /\ xc = None
    /\ ff = None /\ vec = None /\ vec0 = None /\ prog = None /\ pc = None
    /\ divzero = None
    /\ cin \in [sov : TextBuilds]

Show_to_string ==
    /\ op = "init"
    /\ op' = "to_string"
    /\ out' = Ok(to_string(ba))
    /\ UNCHANGED <<bvars, xvars, nvars, cin>>

Show_ostream_write ==
    /\ op = "init"
    /\ op' = "operator<<"
    /\ out' = Ok(ostream_write(ba))
    /\ UNCHANGED <<bvars, xvars, nvars, cin>>

\* bfe_from_string on the text to_string has returned; the text is kept in
\* bb's place for the comparison.
Show_bfe_from_string ==
    /\ op = "to_string"
    /\ op' = "bfe_from_string"
    /\ out' = bfe_from_string(out.val, cin.sov)
    /\ bb' = out.val
    /\ UNCHANGED <<ba, bc, xvars, nvars, cin>>

NextShow == Show_to_string \/ Show_ostream_write \/ Show_bfe_from_string

SpecShow == InitShow /\ [][NextShow]_vars

\* The text writes the number v in one of the three forms: plainly, if
\* v <= 256; as "-" and P - v, if v >= P - 256; in 20 digits with zeros in
\* front otherwise.
Shown(str, v) ==
    IF ~Lt(v, WSub(P, Small(256, 4)))
    THEN /\ str[1] = 45 /\ str[2] # 48
         /\ AllDigits(str, 2, 10)
         /\ DecimalMagnitude(str) = Cast(WSub(P, v), 16)
    ELSE /\ AllDigits(str, 1, 10)
         /\ DecimalMagnitude(str) = Cast(v, 16)
         /\ IF Lt(Small(256, 4), v) THEN Len(str) = 20
            ELSE Len(str) = 1 \/ str[1] # 48

\* C30: for every element a, bfe_from_string(a.to_string()) is a; the text
\* has the form of the range the value is in, and operator<< writes the text
\* of to_string.
C30_DisplayRoundTrip ==
    /\ op = "bfe_from_string" => out.err = "none" /\ BEq(out.val, ba)
    /\ op = "to_string" => Shown(out.val, value(ba))
    /\ op = "operator<<" => out.val = to_string(ba)

\* C30 witness: a text of 20 digits that begins with zeros, and one with a
\* minus sign, have been parsed back.
C30_Witness ==
    /\ op = "bfe_from_string" /\ out = Ok(ba)
    /\ \/ value(ba) = Small(257, 4) /\ Len(bb) = 20 /\ bb[1] = 48
       \/ value(ba) = WSub(P, Small(256, 4)) /\ bb = <<45, 50, 53, 54>>

====
